---- MODULE Spec2Model ----
(***************************************************************************)
(* Model of the here&now geospatial grid codec (src/utils/GeoGrid.ts, kept *)
(* in src/unnamed/part_002).                                               *)
(*                                                                         *)
(* Numbers.  The source works on IEEE doubles in degrees.  The model works *)
(* in exact integer arithmetic on a lattice whose unit is one tenth of the *)
(* grid precision: 1 unit = 0.000009 degree, so LATITUDE_PRECISION is 10   *)
(* units, a sub-cell (a fifth of a cell) is 2 units and the centre of a    *)
(* sub-cell is an odd number of units.  90 degrees are 10,000,000 units.   *)
(*                                                                         *)
(* Strings.  A string is a sequence of one-character strings, so that      *)
(* split, indexOf, the regular expression and the template literal of the  *)
(* source are computed character by character.                             *)
(***************************************************************************)
EXTENDS Integers, Sequences, FiniteSets, TLC

VARIABLES
    coord,      \* argument of the coordinateToGridCode call under study
    other,      \* argument of a second, independent coordinateToGridCode call
    code,       \* coordinateToGridCode(coord), <<>> before the call
    otherCode,  \* coordinateToGridCode(other), <<>> before the call
    center,     \* outcome of gridCodeToCoordinate(code)
    recode,     \* coordinateToGridCode(center), <<>> before the call
    cell,       \* outcome of getGridCell(coord)
    input,      \* an arbitrary string handed to the code-accepting functions
    valid,      \* outcome of isValidGridCode: "none", "true" or "false"
    decoded,    \* outcome of gridCodeToCoordinate(input)
    pc,         \* position of the client that calls the library
    origin,     \* getGridCodesInRadius: the argument center
    radius,     \* getGridCodesInRadius: the argument radiusMeters, in units of 0.999 m
    lat,        \* getGridCodesInRadius: the variable of the outer loop
    lng,        \* getGridCodesInRadius: the variable of the inner loop
    codes,      \* getGridCodesInRadius: the Set codes, in insertion order
    drift,      \* getDistance: how the sum a rounds where it is 1 in exact arithmetic
    distance,   \* outcome of getDistance(coord, other)
    reverse,    \* outcome of getDistance(other, coord)
    meters,     \* argument of formatDistance, in hundredths of a metre
    formatted,  \* outcome of formatDistance(meters), <<>> before the call
    store,      \* AsyncStorage, key place_memory_locations: the locations in key order
    notesCount, \* AsyncStorage, key place_memory_user: the field notesCount
    clock,      \* Date.now(), in days
    nextId,     \* the number of ids generateId has returned
    drafts,     \* for each note id, the noteData that saveNote was called with
    screen,     \* what the application shows: the outcome of the last read or scan
    tasks,      \* for each storage call in flight: its arguments and the locations it read
    boot        \* the position and the state of the init effect of AppProvider

codecVars == <<coord, other, code, otherCode, center, recode, cell>>

inputVars == <<input, valid, decoded>>

sweepVars == <<origin, radius, lat, lng, codes>>

distVars == <<drift, distance, reverse>>

formatVars == <<meters, formatted>>

storeVars == <<store, notesCount, clock, nextId, drafts, screen>>

asyncVars == <<tasks, boot>>

vars == <<coord, other, code, otherCode, center, recode, cell, input, valid, decoded, pc,
          origin, radius, lat, lng, codes, drift, distance, reverse,
          meters, formatted, store, notesCount, clock, nextId, drafts, screen, tasks, boot>>

(***************************************************************************)
(* Constants of the source, in lattice units.                              *)
(***************************************************************************)
ALPHABET ==
    << "2", "3", "4", "5", "6", "7", "8", "9", "B", "C", "D", "F", "G", "H",
       "J", "K", "M", "N", "P", "Q", "R", "S", "T", "V", "W", "X", "Z" >>

BASE == Len(ALPHABET)

LATITUDE_PRECISION == 10

LONGITUDE_PRECISION == 10

\* 90 and 180 degrees in lattice units (90 / 0.000009 and 180 / 0.000009).
Lat90 == 10000000

Lng180 == 20000000

\* The characters of the string "undefined", which a template literal or a
\* string concatenation produces for an out-of-range string index.
Undefined == << "u", "n", "d", "e", "f", "i", "n", "e", "d" >>

(***************************************************************************)
(* JavaScript arithmetic.                                                  *)
(***************************************************************************)
\* The % operator: the result takes the sign of the dividend.
JsRem(n, m) == IF n >= 0 THEN n % m ELSE -((-n) % m)

\* Math.floor(n / m) for a positive m.
FloorDiv(n, m) == n \div m

\* ALPHABET[i]: a character, or undefined (rendered "undefined") off range.
AlphabetAt(i) == IF i \in 0..(BASE - 1) THEN << ALPHABET[i + 1] >> ELSE Undefined

\* ALPHABET.indexOf(ch): zero-based position, -1 when absent.
IndexOf(ch) ==
    IF \E i \in 1..BASE : ALPHABET[i] = ch
    THEN (CHOOSE i \in 1..BASE : ALPHABET[i] = ch) - 1
    ELSE -1

(***************************************************************************)
(* encodeBase32 and decodeBase32.                                          *)
(***************************************************************************)
RECURSIVE encodeLoop(_, _, _)
encodeLoop(n, i, result) ==
    IF i = 0 THEN result
    ELSE encodeLoop(FloorDiv(n, BASE), i - 1, AlphabetAt(JsRem(n, BASE)) \o result)

\* A variant that stops at the last significant digit instead of padding to
\* the requested length.
RECURSIVE encodeNoPadLoop(_, _)
encodeNoPadLoop(n, result) ==
    IF n <= 0 THEN result
    ELSE encodeNoPadLoop(FloorDiv(n, BASE), AlphabetAt(JsRem(n, BASE)) \o result)

encodeBase32NoPad(num, length) == encodeNoPadLoop(num, << >>)

encodeBase32(num, length) == encodeLoop(num, length, << >>)

RECURSIVE decodeLoop(_, _, _)
decodeLoop(str, i, result) ==
    IF i > Len(str) THEN result
    ELSE decodeLoop(str, i + 1, result * BASE + IndexOf(str[i]))

decodeBase32(str) == decodeLoop(str, 1, 0)

(***************************************************************************)
(* coordinateToGridCode.                                                   *)
(***************************************************************************)
Coordinate(la, lo) == [latitude |-> la, longitude |-> lo]

latIndexOf(c) == FloorDiv(c.latitude + Lat90, LATITUDE_PRECISION)

lngIndexOf(c) == FloorDiv(c.longitude + Lng180, LONGITUDE_PRECISION)

\* Math.floor(latRemainder * 5) and Math.floor(lngRemainder * 5).
subLatIndexOf(c) == FloorDiv(JsRem(c.latitude + Lat90, LATITUDE_PRECISION) * 5, LATITUDE_PRECISION)

subLngIndexOf(c) == FloorDiv(JsRem(c.longitude + Lng180, LONGITUDE_PRECISION) * 5, LONGITUDE_PRECISION)

subIndexOf(c) == subLatIndexOf(c) * 5 + subLngIndexOf(c)

coordinateToGridCode(c) ==
    encodeBase32(latIndexOf(c), 4) \o << "-" >> \o
    encodeBase32(lngIndexOf(c), 4) \o << "-" >> \o
    encodeBase32(subIndexOf(c), 2)

(***************************************************************************)
(* gridCodeToCoordinate.                                                   *)
(***************************************************************************)
\* code.split('-'): the pieces between hyphens, empty pieces included.
RECURSIVE splitLoop(_, _, _, _)
splitLoop(str, i, piece, parts) ==
    IF i > Len(str) THEN Append(parts, piece)
    ELSE IF str[i] = "-" THEN splitLoop(str, i + 1, << >>, Append(parts, piece))
    ELSE splitLoop(str, i + 1, Append(piece, str[i]), parts)

Split(str) == splitLoop(str, 1, << >>, << >>)

Thrown == [status |-> "error", latitude |-> 0, longitude |-> 0]

NotCalled == [status |-> "none", latitude |-> 0, longitude |-> 0]

Returned(la, lo) == [status |-> "ok", latitude |-> la, longitude |-> lo]

\* A variant that returns the south-west corner of the cell and drops the
\* sub-grid offset.
gridCodeToCoordinateNoSub(str) ==
    LET parts == Split(str) IN
    IF Len(parts) # 3 THEN Thrown
    ELSE Returned(decodeBase32(parts[1]) * LATITUDE_PRECISION - Lat90,
                  decodeBase32(parts[2]) * LONGITUDE_PRECISION - Lng180)

\* (sub + 0.5) * (PRECISION / 5) is 2 * sub + 1 lattice units.
gridCodeToCoordinate(str) ==
    LET parts == Split(str) IN
    IF Len(parts) # 3 THEN Thrown
    ELSE
        LET latIndex == decodeBase32(parts[1])
            lngIndex == decodeBase32(parts[2])
            subIndex == decodeBase32(parts[3])
            subLat == FloorDiv(subIndex, 5)
            subLng == JsRem(subIndex, 5)
        IN  Returned(latIndex * LATITUDE_PRECISION - Lat90
                        + (2 * subLat + 1) * (LATITUDE_PRECISION \div 10),
                     lngIndex * LONGITUDE_PRECISION - Lng180
                        + (2 * subLng + 1) * (LONGITUDE_PRECISION \div 10))

(***************************************************************************)
(* getGridCell.                                                            *)
(***************************************************************************)
NoCell == [status |-> "none"]

\* The call fails when gridCodeToCoordinate throws; otherwise the bounds lie
\* half a LATITUDE_PRECISION and half a LONGITUDE_PRECISION around the decoded
\* centre.
getGridCell(c) ==
    LET gridCode == coordinateToGridCode(c)
        decodedCenter == gridCodeToCoordinate(gridCode)
        halfLat == LATITUDE_PRECISION \div 2
        halfLng == LONGITUDE_PRECISION \div 2
    IN  IF decodedCenter.status = "error" THEN [status |-> "error"]
        ELSE [status |-> "ok",
              code |-> gridCode,
              center |-> Coordinate(decodedCenter.latitude, decodedCenter.longitude),
              bounds |-> [north |-> decodedCenter.latitude + halfLat,
                          south |-> decodedCenter.latitude - halfLat,
                          east |-> decodedCenter.longitude + halfLng,
                          west |-> decodedCenter.longitude - halfLng]]

(***************************************************************************)
(* isValidGridCode: the anchored regular expression                        *)
(*   ^[ALPHABET]{4}-[ALPHABET]{4}-[ALPHABET]{2}$                           *)
(* run as a matcher over its items, each a character class with a count.   *)
(***************************************************************************)
AlphabetClass == { ALPHABET[i] : i \in 1..BASE }

HyphenClass == { "-" }

Pattern ==
    << [class |-> AlphabetClass, count |-> 4], [class |-> HyphenClass, count |-> 1],
       [class |-> AlphabetClass, count |-> 4], [class |-> HyphenClass, count |-> 1],
       [class |-> AlphabetClass, count |-> 2] >>

\* Matches item k of the pattern at position pos with left repetitions to go;
\* after the last item the $ anchor requires the end of the string.
RECURSIVE matchFrom(_, _, _, _)
matchFrom(str, pos, k, left) ==
    IF k > Len(Pattern) THEN pos = Len(str) + 1
    ELSE IF left = 0
         THEN matchFrom(str, pos, k + 1,
                        IF k + 1 > Len(Pattern) THEN 0 ELSE Pattern[k + 1].count)
    ELSE IF pos > Len(str) THEN FALSE
    ELSE IF str[pos] \notin Pattern[k].class THEN FALSE
    ELSE matchFrom(str, pos + 1, k, left - 1)

\* A variant of the expression without the $ anchor: the pattern only has to
\* match a prefix of the string.
RECURSIVE matchPrefixFrom(_, _, _, _)
matchPrefixFrom(str, pos, k, left) ==
    IF k > Len(Pattern) THEN TRUE
    ELSE IF left = 0
         THEN matchPrefixFrom(str, pos, k + 1,
                              IF k + 1 > Len(Pattern) THEN 0 ELSE Pattern[k + 1].count)
    ELSE IF pos > Len(str) THEN FALSE
    ELSE IF str[pos] \notin Pattern[k].class THEN FALSE
    ELSE matchPrefixFrom(str, pos + 1, k, left - 1)

isValidGridCodeUnanchored(str) == matchPrefixFrom(str, 1, 1, Pattern[1].count)

isValidGridCode(str) == matchFrom(str, 1, 1, Pattern[1].count)

(***************************************************************************)
(* Inputs.  Coordinates are drawn from windows of Window + 1 consecutive   *)
(* lattice points at the edges of the valid ranges, at the first index     *)
(* that does not fit four base-27 digits, and around New Delhi (28.6139,   *)
(* 77.2090).                                                               *)
(***************************************************************************)
Window == 2

\* BASE^4 cells, in lattice units: the first index past four digits.
GroupSpan == BASE * BASE * BASE * BASE * LATITUDE_PRECISION

NewDelhi == Coordinate(3179322, 8578777)

LatAnchors == { -Lat90, -Lat90 + GroupSpan, NewDelhi.latitude, Lat90 - Window }

LngAnchors == { -Lng180, -Lng180 + GroupSpan, NewDelhi.longitude, Lng180 - Window }

Latitudes == { a + d : a \in LatAnchors, d \in 0..Window }

Longitudes == { a + d : a \in LngAnchors, d \in 0..Window }

Coords == { Coordinate(la, lo) : la \in Latitudes, lo \in Longitudes }

InValidRange(c) ==
    /\ c.latitude >= -Lat90 /\ c.latitude <= Lat90
    /\ c.longitude >= -Lng180 /\ c.longitude <= Lng180

(***************************************************************************)
(* Strings handed to isValidGridCode and gridCodeToCoordinate: two codes   *)
(* and every string one edit away from them.                               *)
(***************************************************************************)
TestChars == { "2", "Z", "0", "O", "1", "I", "L", "z", "g", "-", " ", "\n" }

BaseCodes == { coordinateToGridCode(NewDelhi), coordinateToGridCode(Coordinate(Lat90, Lng180)) }

Substitute(s, i, ch) == [s EXCEPT ![i] = ch]

Delete(s, i) == SubSeq(s, 1, i - 1) \o SubSeq(s, i + 1, Len(s))

Insert(s, i, ch) == SubSeq(s, 1, i - 1) \o << ch >> \o SubSeq(s, i, Len(s))

Swap(s, i) == [s EXCEPT ![i] = s[i + 1], ![i + 1] = s[i]]

TestStrings ==
    UNION { { b } \cup { SubSeq(b, 1, n) : n \in 0..Len(b) }
                  \cup { Substitute(b, i, ch) : i \in 1..Len(b), ch \in TestChars }
                  \cup { Delete(b, i) : i \in 1..Len(b) }
                  \cup { Insert(b, i, ch) : i \in 1..(Len(b) + 1), ch \in TestChars }
                  \cup { Swap(b, i) : i \in 1..(Len(b) - 1) }
            : b \in BaseCodes }

(***************************************************************************)
(* Distances.  A distance is the sum a of getDistance, of which the result  *)
(* is a growing function: big sixteenths, plus local sixteenths of a        *)
(* squared lattice unit, plus (tiny) a positive amount below the lattice.   *)
(* ulps is the rounding error of a double a next to 1.                      *)
(***************************************************************************)
Quantity(b, l, t) == [nan |-> FALSE, big |-> b, local |-> l, tiny |-> t, ulps |-> 0]

NaN == [nan |-> TRUE, big |-> 0, local |-> 0, tiny |-> FALSE, ulps |-> 0]

NotMeasured == [nan |-> FALSE, big |-> -1, local |-> 0, tiny |-> FALSE, ulps |-> 0]

\* No getDistance call of the client has been made.
DistIdle ==
    /\ drift = "exact"
    /\ distance = NotMeasured
    /\ reverse = NotMeasured

\* No formatDistance call of the client has been made.
FormatIdle ==
    /\ meters = 0
    /\ formatted = << >>

\* What the application shows before any read or scan.
Blank == [kind |-> "blank"]

\* The storage of a fresh installation.
StoreIdle ==
    /\ store = << >>
    /\ notesCount = 0
    /\ clock = 0
    /\ nextId = 0
    /\ drafts = << >>
    /\ screen = Blank

\* The two storage calls that may be in flight together.
Tasks == { 1, 2 }

\* No storage call is in flight, and AppProvider has not been mounted.
AsyncIdle ==
    /\ tasks = [t \in Tasks |-> [pc |-> "idle"]]
    /\ boot = [step |-> "unmounted"]

(***************************************************************************)
(* Spec: a client encodes a coordinate, then validates the code, or        *)
(* encodes a second coordinate, or decodes the code and encodes the        *)
(* decoded centre again.                                                   *)
(***************************************************************************)
Init ==
    /\ coord \in Coords
    /\ other \in Coords
    /\ code = << >>
    /\ otherCode = << >>
    /\ center = NotCalled
    /\ recode = << >>
    /\ cell = NoCell
    /\ input = << >>
    /\ valid = "none"
    /\ decoded = NotCalled
    /\ pc = "start"
    /\ origin = NewDelhi
    /\ radius = 0
    /\ lat = 0
    /\ lng = 0
    /\ codes = << >>
    /\ DistIdle
    /\ FormatIdle
    /\ StoreIdle
    /\ AsyncIdle

Encode ==
    /\ pc = "start"
    /\ code' = coordinateToGridCode(coord)
    /\ pc' = "encoded"
    /\ UNCHANGED <<asyncVars, storeVars, formatVars, distVars, sweepVars, coord, other, otherCode, center, recode, cell, input, valid, decoded>>

EncodeOther ==
    /\ pc = "encoded"
    /\ otherCode' = coordinateToGridCode(other)
    /\ pc' = "paired"
    /\ UNCHANGED <<asyncVars, storeVars, formatVars, distVars, sweepVars, coord, other, code, center, recode, cell, input, valid, decoded>>

ValidateCode ==
    /\ pc = "encoded"
    /\ valid' = IF isValidGridCode(code) THEN "true" ELSE "false"
    /\ pc' = "validated"
    /\ UNCHANGED <<asyncVars, storeVars, formatVars, distVars, sweepVars, coord, other, code, otherCode, center, recode, cell, input, decoded>>

Decode ==
    /\ pc = "encoded"
    /\ center' = gridCodeToCoordinate(code)
    /\ pc' = "decoded"
    /\ UNCHANGED <<asyncVars, storeVars, formatVars, distVars, sweepVars, coord, other, code, otherCode, recode, cell, input, valid, decoded>>

\* getGridCell(coord), a call of its own.
GetGridCell ==
    /\ pc = "start"
    /\ cell' = getGridCell(coord)
    /\ pc' = "cell"
    /\ UNCHANGED <<asyncVars, storeVars, formatVars, distVars, sweepVars, coord, other, code, otherCode, center, recode, input, valid, decoded>>

ReEncode ==
    /\ pc = "decoded"
    /\ center.status = "ok"
    /\ recode' = coordinateToGridCode(Coordinate(center.latitude, center.longitude))
    /\ pc' = "reencoded"
    /\ UNCHANGED <<asyncVars, storeVars, formatVars, distVars, sweepVars, coord, other, code, otherCode, center, cell, input, valid, decoded>>

Next == Encode \/ EncodeOther \/ ValidateCode \/ Decode \/ ReEncode \/ GetGridCell

Spec == Init /\ [][Next]_vars

(***************************************************************************)
(* SpecInput: a client hands an arbitrary string to isValidGridCode and to *)
(* gridCodeToCoordinate.                                                   *)
(***************************************************************************)
InitInput ==
    /\ coord = NewDelhi
    /\ other = NewDelhi
    /\ code = << >>
    /\ otherCode = << >>
    /\ center = NotCalled
    /\ recode = << >>
    /\ cell = NoCell
    /\ input \in TestStrings
    /\ valid = "none"
    /\ decoded = NotCalled
    /\ pc = "start"
    /\ origin = NewDelhi
    /\ radius = 0
    /\ lat = 0
    /\ lng = 0
    /\ codes = << >>
    /\ DistIdle
    /\ FormatIdle
    /\ StoreIdle
    /\ AsyncIdle

ValidateInput ==
    /\ valid = "none"
    /\ valid' = IF isValidGridCode(input) THEN "true" ELSE "false"
    /\ UNCHANGED <<asyncVars, storeVars, formatVars, distVars, sweepVars, coord, other, code, otherCode, center, recode, cell, input, decoded, pc>>

DecodeInput ==
    /\ decoded.status = "none"
    /\ decoded' = gridCodeToCoordinate(input)
    /\ UNCHANGED <<asyncVars, storeVars, formatVars, distVars, sweepVars, coord, other, code, otherCode, center, recode, cell, input, valid, pc>>

\* coordinateToGridCode of the decoded coordinate, as saveNote computes the
\* key of a note that is added at the coordinate of a scanned code.
ReEncodeInput ==
    /\ decoded.status = "ok"
    /\ recode = << >>
    /\ recode' = coordinateToGridCode(Coordinate(decoded.latitude, decoded.longitude))
    /\ UNCHANGED <<asyncVars, storeVars, formatVars, distVars, sweepVars, coord, other, code, otherCode, center, cell, input, valid, decoded, pc>>

NextInput == ValidateInput \/ DecodeInput \/ ReEncodeInput

SpecInput == InitInput /\ [][NextInput]_vars

(***************************************************************************)
(* getDistance and getGridCodesInRadius.                                   *)
(*                                                                         *)
(* The radius is counted in units of 0.999 m, the length for which         *)
(* radiusMeters / 111000 is one lattice unit of latitude.  The model draws *)
(* centres from two latitude bands, the equator and 60 degrees, where      *)
(* 1 / Math.cos(latitude) is 1 and 2 (to six digits over the band), and    *)
(* from the poles.  At a pole Math.cos is 6.1e-17, so the longitude span   *)
(* of a radius r > 0 is r * 1.5e11 degrees.  A double of 2^40 degrees or   *)
(* more is spaced 2^-12 = 0.00024 degree or wider, so adding 0.00009 to it *)
(* rounds back to the same double; the span reaches 2^40 degrees from      *)
(* r = 7.48 m, i.e. from AbsorbRadius radius units.  The model has no      *)
(* integers of that size: AbsorbLimit stands for 2^40 degrees and PoleSpan *)
(* for every span beyond it.  Polar radii between 0 and AbsorbRadius, with *)
(* some 1e16 samples in a row, are not drawn.                              *)
(*                                                                         *)
(* For the distances of a sweep (tens of metres) the haversine distance is *)
(* the length of the chord on the tangent plane, so                        *)
(*   getDistance(c1, c2)^2 = (dLat^2 + (cos(lat) * dLng)^2) * m^2          *)
(* with m = 6371000 * PI / 180 metres per degree.  A lattice unit is       *)
(* 111000 / m = 0.998247 of a radius unit; the square of that ratio is     *)
(* RatioSqNum / RatioSqDen.                                                *)
(***************************************************************************)
Lat60 == (2 * Lat90) \div 3

BandWidth == 1000

RatioSqNum == 9965

RatioSqDen == 10000

Abs(x) == IF x < 0 THEN -x ELSE x

AtPole(c) == Abs(c.latitude) = Lat90

\* 1 / Math.cos(c.latitude * Math.PI / 180) on the bands of the model.
Secant(c) ==
    CASE Abs(c.latitude) <= BandWidth -> 1
      [] Abs(Abs(c.latitude) - Lat60) <= BandWidth -> 2

\* n degrees in lattice units: a degree is a 180th of Lng180, 1000000 / 9 units.
Deg(n) == (n * (Lng180 \div 20)) \div 9

\* The widest offset between two points the model calls close: two points of
\* one band.
Slack == 2 * BandWidth

Near(x, angle) == Abs(x - angle) <= Slack

\* Math.sin(delta / 2) squared, for a difference delta of two latitudes or of
\* two longitudes.  Close to 0 or to 360 degrees it is the square of half the
\* offset (local, in sixteenths of a squared lattice unit).  Math.sin(Math.PI)
\* is 1.2e-16, not 0.  Around 60, 90, 120 and 180 degrees it is 4/16, 8/16,
\* 12/16 and 16/16, and big keeps that leading term.
SinSqHalf(delta) ==
    LET x == Abs(delta)
    IN  CASE x = 0 -> Quantity(0, 0, FALSE)
          [] x > 0 /\ x <= Slack -> Quantity(0, 16 * x * x, FALSE)
          [] Near(x, Deg(60)) -> Quantity(4, 0, FALSE)
          [] Near(x, Deg(90)) -> Quantity(8, 0, FALSE)
          [] Near(x, Deg(120)) -> Quantity(12, 0, FALSE)
          [] Near(x, Deg(180)) -> Quantity(16, 0, FALSE)
          [] x = Deg(360) -> Quantity(0, 0, TRUE)
          [] x < Deg(360) /\ Deg(360) - x <= Slack ->
                Quantity(0, 16 * (Deg(360) - x) * (Deg(360) - x), FALSE)

\* Math.cos(lat1Rad) * Math.cos(lat2Rad), in sixteenths, away from the poles.
CosProduct(c1, c2) == 16 \div (Secant(c1) * Secant(c2))

\* sixteenths / 16 * q
Times(sixteenths, q) ==
    Quantity((sixteenths * q.big) \div 16, (sixteenths * q.local) \div 16, q.tiny)

Plus(p, q) == Quantity(p.big + q.big, p.local + q.local, p.tiny \/ q.tiny)

\* Math.cos(lat1Rad) * Math.cos(lat2Rad) * Math.sin(deltaLng / 2) squared.  With
\* a pole in the pair the product of the cosines is below 1e-16: the term is 0
\* for equal longitudes and positive but below the lattice otherwise.
LngTerm(c1, c2) ==
    IF c2.longitude = c1.longitude THEN Quantity(0, 0, FALSE)
    ELSE IF AtPole(c1) \/ AtPole(c2) THEN Quantity(0, 0, TRUE)
    ELSE Times(CosProduct(c1, c2), SinSqHalf(c2.longitude - c1.longitude))

\* The sum a in exact arithmetic.
Haversine(c1, c2) == Plus(SinSqHalf(c2.latitude - c1.latitude), LngTerm(c1, c2))

\* a is 1 in exact arithmetic: the pair is antipodal.
Antipodal(c1, c2) == Haversine(c1, c2).big = 16

\* The terms of an antipodal pair are computed without rounding error: at
\* latitude 0 (Math.cos is 1, Math.sin(Math.PI / 2) is 1) and at the poles
\* (the latitude term is 1, the longitude term vanishes in the sum).
RoundsExactly(c1, c2) == c1.latitude = 0 \/ AtPole(c1)

\* getDistance(c1, c2) = R * 2 * Math.atan2(Math.sqrt(a), Math.sqrt(1 - a)), which
\* grows with a from 0 at a = 0 to PI * R at a = 1: the model returns a for the
\* distance.  For an antipodal pair the double a is 1 - 2^-53, 1 or 1 + 2^-52
\* (drift); beyond 1, Math.sqrt(1 - a) is NaN and so is the result.
getDistance(c1, c2) ==
    LET a == Haversine(c1, c2)
    IN  IF ~Antipodal(c1, c2) THEN a
        ELSE IF RoundsExactly(c1, c2) \/ drift = "exact" THEN Quantity(16, 0, FALSE)
        ELSE IF drift = "below" THEN [Quantity(16, 0, FALSE) EXCEPT !.ulps = -1]
        ELSE NaN

\* getDistance(c1, c2) <= r, for r in radius units: d.local / 16 squared
\* lattice units are at most r * r * RatioSqNum / RatioSqDen.  The comparison
\* is made on the quotient, with both sides divided by 80, to stay within the
\* integers of the model checker.  NaN <= r is false, and a distance of a
\* sixteenth of the sphere or more is beyond every radius of the application.
DistanceWithin(c1, c2, r) ==
    LET d == getDistance(c1, c2)
        scaled == d.local * (RatioSqDen \div 80)
        unit == RatioSqNum \div 5
    IN  /\ ~d.nan
        /\ d.big = 0
        /\ \/ scaled \div unit < r * r
           \/ scaled \div unit = r * r /\ scaled % unit = 0 /\ ~d.tiny

\* radiusMeters / 111000, in lattice units.
LatDegrees(r) == r

AbsorbLimit == 1000000000

AbsorbRadius == 8

PoleSpan == AbsorbLimit + Lng180

\* radiusMeters / (111000 * Math.cos(...)); Math.cos is never exactly 0 (it is
\* 6.1e-17 at the poles), so radius 0 gives 0 everywhere.
LngDegrees(r, c) ==
    IF r = 0 THEN 0
    ELSE IF AtPole(c) THEN PoleSpan
    ELSE r * Secant(c)

\* x + step in doubles: from AbsorbLimit on the sum rounds to x.
FloatAdd(x, step) == IF Abs(x) >= AbsorbLimit THEN x ELSE x + step

\* A loop test with < in place of <=.
LoopTestStrict(x, limit) == x < limit

\* The loop tests lat <= center.latitude + latDegrees and its twin.
LoopTest(x, limit) == x <= limit

Contains(seq, x) == \E i \in 1..Len(seq) : seq[i] = x

\* An array push in place of Set.add.
ArrayPush(seq, x) == Append(seq, x)

\* codes.add(x): a Set keeps one copy, in insertion order.
SetAdd(seq, x) == IF Contains(seq, x) THEN seq ELSE Append(seq, x)

\* The code of the sample is added without the distance test.
AddUntested(seq, c, p, r) == SetAdd(seq, coordinateToGridCode(p))

\* if (distance <= radiusMeters) codes.add(coordinateToGridCode(...))
AddWithin(seq, c, p, r) ==
    IF DistanceWithin(c, p, r) THEN SetAdd(seq, coordinateToGridCode(p)) ELSE seq

MaxRadius == 25

SweepLatitudes ==
    { a + d : a \in {0, Lat60}, d \in 0..Window } \cup { -Lat90, Lat90 }

SweepLongitudes ==
    { -Lng180 + d : d \in 0..Window } \cup { NewDelhi.longitude + d : d \in 0..Window }
        \cup { Lng180 - d : d \in 0..Window }

SweepCenters == { Coordinate(la, lo) : la \in SweepLatitudes, lo \in SweepLongitudes }

(***************************************************************************)
(* SpecSweep: one call of getGridCodesInRadius, an action per loop test.   *)
(***************************************************************************)
InitSweep ==
    /\ coord = NewDelhi
    /\ other = NewDelhi
    /\ code = << >>
    /\ otherCode = << >>
    /\ center = NotCalled
    /\ recode = << >>
    /\ cell = NoCell
    /\ input = << >>
    /\ valid = "none"
    /\ decoded = NotCalled
    /\ pc = "idle"
    /\ origin \in SweepCenters
    /\ radius \in 0..MaxRadius
    /\ AtPole(origin) => (radius = 0 \/ radius >= AbsorbRadius)
    /\ lat = 0
    /\ lng = 0
    /\ codes = << >>
    /\ DistIdle
    /\ FormatIdle
    /\ StoreIdle
    /\ AsyncIdle

\* Entry: the empty Set, the two spans and the start of the outer loop.
SweepCall ==
    /\ pc = "idle"
    /\ codes' = << >>
    /\ lat' = origin.latitude - LatDegrees(radius)
    /\ pc' = "outer"
    /\ UNCHANGED <<asyncVars, storeVars, formatVars, distVars, codecVars, inputVars, origin, radius, lng>>

\* The test of the outer loop: start a row, or return Array.from(codes).
SweepOuter ==
    /\ pc = "outer"
    /\ IF LoopTest(lat, origin.latitude + LatDegrees(radius))
       THEN /\ lng' = origin.longitude - LngDegrees(radius, origin)
            /\ pc' = "inner"
       ELSE /\ lng' = lng
            /\ pc' = "done"
    /\ UNCHANGED <<asyncVars, storeVars, formatVars, distVars, codecVars, inputVars, origin, radius, lat, codes>>

\* The test of the inner loop: one sample and lng += LONGITUDE_PRECISION, or
\* the end of the row and lat += LATITUDE_PRECISION.
SweepInner ==
    /\ pc = "inner"
    /\ IF LoopTest(lng, origin.longitude + LngDegrees(radius, origin))
       THEN /\ codes' = AddWithin(codes, origin, Coordinate(lat, lng), radius)
            /\ lng' = FloatAdd(lng, LONGITUDE_PRECISION)
            /\ UNCHANGED <<lat, pc>>
       ELSE /\ lat' = FloatAdd(lat, LATITUDE_PRECISION)
            /\ pc' = "outer"
            /\ UNCHANGED <<lng, codes>>
    /\ UNCHANGED <<asyncVars, storeVars, formatVars, distVars, codecVars, inputVars, origin, radius>>

NextSweep == SweepCall \/ SweepOuter \/ SweepInner

SpecSweep == InitSweep /\ [][NextSweep]_vars

\* The call runs on one thread without interruption: a loop step that can
\* change the state is eventually taken.
FairSpecSweep == SpecSweep /\ WF_vars(NextSweep)

(***************************************************************************)
(* SpecDistance: a client measures a pair of coordinates in both orders.   *)
(* The pairs are drawn from both hemispheres of the two bands, the poles,  *)
(* the prime meridian and both sides of the antimeridian.  A pair is       *)
(* Tabulated when SinSqHalf knows both differences and, for a sum of 1,    *)
(* the pair is exactly antipodal (next to an antipode a is below 1 by a    *)
(* second-order term that big does not keep).                              *)
(***************************************************************************)
DistLatitudes ==
    { -Lat90, Lat90 } \cup { s * (a + d) : s \in {-1, 1}, a \in {0, Lat60}, d \in 0..Window }

DistLongitudes ==
    { s * d : s \in {-1, 1}, d \in 0..Window }
        \cup { s * (Lng180 - d) : s \in {-1, 1}, d \in 0..Window }

DistCoords == { Coordinate(la, lo) : la \in DistLatitudes, lo \in DistLongitudes }

Tabulated(c1, c2) ==
    LET x == Abs(c2.latitude - c1.latitude)
        y == Abs(c2.longitude - c1.longitude)
    IN  /\ x <= Slack \/ \E n \in {60, 90, 120, 180} : Near(x, Deg(n))
        /\ y <= Slack \/ Near(y, Deg(180)) \/ (y <= Deg(360) /\ Deg(360) - y <= Slack)
        /\ Antipodal(c1, c2) =>
              /\ c2.latitude = -c1.latitude
              /\ y = Deg(180) \/ AtPole(c1)

InitDistance ==
    /\ coord \in DistCoords
    /\ other \in DistCoords
    /\ Tabulated(coord, other)
    /\ code = << >>
    /\ otherCode = << >>
    /\ center = NotCalled
    /\ recode = << >>
    /\ cell = NoCell
    /\ input = << >>
    /\ valid = "none"
    /\ decoded = NotCalled
    /\ pc = "start"
    /\ origin = NewDelhi
    /\ radius = 0
    /\ lat = 0
    /\ lng = 0
    /\ codes = << >>
    /\ drift \in {"below", "exact", "above"}
    /\ distance = NotMeasured
    /\ reverse = NotMeasured
    /\ FormatIdle
    /\ StoreIdle
    /\ AsyncIdle

Measure ==
    /\ distance = NotMeasured
    /\ distance' = getDistance(coord, other)
    /\ UNCHANGED <<asyncVars, storeVars, formatVars, codecVars, inputVars, sweepVars, pc, drift, reverse>>

MeasureBack ==
    /\ reverse = NotMeasured
    /\ reverse' = getDistance(other, coord)
    /\ UNCHANGED <<asyncVars, storeVars, formatVars, codecVars, inputVars, sweepVars, pc, drift, distance>>

NextDistance == Measure \/ MeasureBack

SpecDistance == InitDistance /\ [][NextDistance]_vars

(***************************************************************************)
(* formatDistance.  The argument is counted in hundredths of a metre.      *)
(***************************************************************************)
\* n metres
Metres(n) == n * 100

DigitChars == << "0", "1", "2", "3", "4", "5", "6", "7", "8", "9" >>

\* The template literal ${n} and Number.prototype.toString for an integer
\* n >= 0: its decimal digits, without leading zeros.
RECURSIVE Decimal(_)
Decimal(n) ==
    IF n < 10 THEN << DigitChars[n + 1] >>
    ELSE Decimal(n \div 10) \o << DigitChars[(n % 10) + 1] >>

\* Math.round(meters): the floor of meters + 0.5.
MathRound(m) == (m + 50) \div 100

\* meters / 1000 lies halfway between two numbers of one decimal.
DecimalTie(m) == m % Metres(100) = Metres(50)

\* Such a quotient is a double exactly when it ends in .25 or .75.
ExactTie(m) == m % Metres(500) = Metres(250)

\* The number of tenths that (meters / 1000).toFixed(1) prints: the nearest
\* to the double meters / 1000, the larger one on an exact tie.  A quotient
\* that is halfway in decimal and not a double lies on one side of the tie
\* (1.05 is 1.0500000000000000444, 1.15 is 1.149999999999999911): drift.
Tenths(m) ==
    IF DecimalTie(m) /\ ~ExactTie(m) /\ drift = "below"
    THEN m \div Metres(100)
    ELSE (m + Metres(50)) \div Metres(100)

\* (meters / 1000).toFixed(1)
ToFixed1(m) == Decimal(Tenths(m) \div 10) \o << "." >> \o Decimal(Tenths(m) % 10)

\* A test with <= in place of <.
BelowKilometreInclusive(m) == m <= Metres(1000)

\* meters < 1000
BelowKilometre(m) == m < Metres(1000)

formatDistance(m) ==
    IF BelowKilometre(m) THEN Decimal(MathRound(m)) \o << "m" >>
    ELSE ToFixed1(m) \o << "k", "m" >>

FormatSpan == 60

\* Distances next to 0, to the examples of the documentation, on both sides
\* of the threshold, on ties of both kinds and where a digit is gained.
FormatAnchors ==
    { Metres(n) : n \in {0, 9, 49, 99, 999, 1000, 1049, 1149, 1249, 2499, 9949, 99949} }

FormatInputs == { a + d : a \in FormatAnchors, d \in 0..(Metres(1) + FormatSpan) }

InitFormat ==
    /\ coord = NewDelhi
    /\ other = NewDelhi
    /\ code = << >>
    /\ otherCode = << >>
    /\ center = NotCalled
    /\ recode = << >>
    /\ cell = NoCell
    /\ input = << >>
    /\ valid = "none"
    /\ decoded = NotCalled
    /\ pc = "start"
    /\ origin = NewDelhi
    /\ radius = 0
    /\ lat = 0
    /\ lng = 0
    /\ codes = << >>
    /\ drift \in {"below", "exact", "above"}
    /\ distance = NotMeasured
    /\ reverse = NotMeasured
    /\ meters \in FormatInputs
    /\ formatted = << >>
    /\ StoreIdle
    /\ AsyncIdle

Format ==
    /\ formatted = << >>
    /\ formatted' = formatDistance(meters)
    /\ UNCHANGED <<asyncVars, storeVars, codecVars, inputVars, sweepVars, distVars, pc, meters>>

NextFormat == Format

SpecFormat == InitFormat /\ [][NextFormat]_vars

(***************************************************************************)
(* The storage of notes (src/utils/storage.ts, kept in src/unnamed/        *)
(* part_004).  The value stored under place_memory_locations is an object  *)
(* keyed by grid code; JSON.stringify and JSON.parse keep the keys in the  *)
(* order of their insertion, and the model keeps the locations as a        *)
(* sequence in that order.  A number that may be null is << >> for null    *)
(* and << n >> for n.  Time is counted in days.  A note's title stands for *)
(* its title and content.                                                  *)
(***************************************************************************)
Null == << >>

Some(n) == << n >>

\* {...a, ...b}: the properties of both objects, those of b on a clash.
Spread(a, b) ==
    [k \in (DOMAIN a) \cup (DOMAIN b) |-> IF k \in DOMAIN b THEN b[k] ELSE a[k]]

createDefaultNoteFields ==
    [upvotes |-> 0,
     downvotes |-> 0,
     votedBy |-> << >>,
     awards |-> << >>,
     replies |-> << >>,
     replyCount |-> 0,
     storyType |-> "story",
     whisperRadius |-> Null,
     unlockAt |-> Null]

\* locations[gridCode]: the position of the key, 0 when it is absent.  An
\* item of the sequence is the location object with the key it is filed
\* under in the field key.
KeyIndex(locations, gridCode) ==
    IF \E i \in 1..Len(locations) : locations[i].key = gridCode
    THEN CHOOSE i \in 1..Len(locations) : locations[i].key = gridCode
    ELSE 0

\* locations[gridCode] = gridLocation: a present key keeps its place, a new
\* key comes last.
SetKey(locations, gridCode, gridLocation) ==
    LET i == KeyIndex(locations, gridCode)
        item == Spread(gridLocation, [key |-> gridCode])
    IN  IF i # 0 THEN [locations EXCEPT ![i] = item] ELSE Append(locations, item)

\* The note is put in front of the list.
UnshiftNote(notes, note) == << note >> \o notes

\* gridLocation.notes.push(note)
PushNote(notes, note) == Append(notes, note)

\* The note that saveNote builds: noteData, then the default fields, then the
\* fields of the call.
NewNote(coordinate, noteData, id, now) ==
    Spread(Spread(noteData, createDefaultNoteFields),
           [id |-> id,
            gridCode |-> coordinateToGridCode(coordinate),
            coordinate |-> coordinate,
            createdAt |-> now,
            updatedAt |-> now])

\* The note is added to the location of the first key, whatever its code.
SavedLocationsAtFirstKey(locations, coordinate, note, now) ==
    IF Len(locations) = 0
    THEN << [key |-> coordinateToGridCode(coordinate),
             code |-> coordinateToGridCode(coordinate),
             coordinate |-> coordinate,
             notes |-> << note >>,
             firstNoteAt |-> now,
             qrGenerated |-> TRUE,
             noteCount |-> 1] >>
    ELSE [locations EXCEPT ![1].notes = PushNote(@, note), ![1].noteCount = @ + 1]

\* The object that saveNote writes back: the location of the code with the
\* note added, or a new location at a new key.
SavedLocations(locations, coordinate, note, now) ==
    LET gridCode == coordinateToGridCode(coordinate)
        i == KeyIndex(locations, gridCode)
        gridLocation ==
            IF i # 0
            THEN [locations[i] EXCEPT !.notes = PushNote(@, note),
                                      !.noteCount = Len(PushNote(locations[i].notes, note))]
            ELSE [code |-> gridCode,
                  coordinate |-> coordinate,
                  notes |-> << note >>,
                  firstNoteAt |-> now,
                  qrGenerated |-> TRUE,
                  noteCount |-> 1]
    IN  SetKey(locations, gridCode, gridLocation)

\* A viewer's position: userLocation, null while no position is known.
NoLocation == [known |-> FALSE, latitude |-> 0, longitude |-> 0]

Known(c) == [known |-> TRUE, latitude |-> c.latitude, longitude |-> c.longitude]

\* x < y for two results of getDistance that are numbers.
DistanceLess(x, y) ==
    \/ x.big < y.big
    \/ x.big = y.big /\ x.local < y.local
    \/ x.big = y.big /\ x.local = y.local /\ ~x.tiny /\ y.tiny
    \/ x.big = y.big /\ x.local = y.local /\ x.tiny = y.tiny /\ x.ulps < y.ulps

\* x is 0, NaN or null: the values for which x || Infinity is Infinity.
Falsy(x) == x = NotMeasured \/ x.nan \/ x = Quantity(0, 0, FALSE)

\* upvotes - downvotes
Score(note) == note.upvotes - note.downvotes

\* (Date.now() - createdAt) / (1000 * 60 * 60) + 2, in hours.
AgePlusTwo(note, now) == (now - note.createdAt) * 24 + 2

\* score(x) > score(y) for score = Score / Math.pow(AgePlusTwo, 1.5), compared
\* on the squares.
HotterThan(x, y, now) ==
    LET sx == Score(x)
        sy == Score(y)
        wx == AgePlusTwo(x, now)
        wy == AgePlusTwo(y, now)
        left == sx * sx * wy * wy * wy
        right == sy * sy * wx * wx * wx
    IN  CASE sx > 0 /\ sy > 0 -> left > right
          [] sx < 0 /\ sy < 0 -> left < right
          [] OTHER -> sx > sy

\* The comparator of allNotes.sort returns a number above 0 for (a, b): a is
\* put after b.  Infinity - Infinity is NaN, which sort takes for 0.
After(sortBy, a, b, now) ==
    CASE sortBy = "hot" -> HotterThan(b.note, a.note, now)
      [] sortBy = "new" -> b.note.createdAt > a.note.createdAt
      [] sortBy = "top" -> Score(b.note) > Score(a.note)
      [] sortBy = "nearby" ->
            IF Falsy(a.distance) THEN ~Falsy(b.distance)
            ELSE ~Falsy(b.distance) /\ DistanceLess(b.distance, a.distance)
      [] sortBy = "distance" -> DistanceLess(b.distance, a.distance)

\* Array.prototype.sort, which is stable: each item goes behind the last item
\* that is not to come after it.
RECURSIVE SortInsert(_, _, _, _)
SortInsert(sorted, x, sortBy, now) ==
    IF Len(sorted) = 0 THEN << x >>
    ELSE LET last == sorted[Len(sorted)]
         IN  IF After(sortBy, last, x, now)
             THEN Append(SortInsert(SubSeq(sorted, 1, Len(sorted) - 1), x, sortBy, now), last)
             ELSE Append(sorted, x)

RECURSIVE SortLoop(_, _, _, _, _)
SortLoop(items, i, sorted, sortBy, now) ==
    IF i > Len(items) THEN sorted
    ELSE SortLoop(items, i + 1, SortInsert(sorted, items[i], sortBy, now), sortBy, now)

ArraySort(items, sortBy, now) == SortLoop(items, 1, << >>, sortBy, now)

\* {...createDefaultNoteFields(), ...note} for every note of a list.
RECURSIVE WithDefaults(_)
WithDefaults(notes) ==
    IF Len(notes) = 0 THEN << >>
    ELSE << Spread(createDefaultNoteFields, notes[1]) >> \o WithDefaults(SubSeq(notes, 2, Len(notes)))

\* The loop of getAllNotesSorted over the keys from i on: every note of every
\* location, with the distance of its location from the viewer or null.
RECURSIVE CollectNotes(_, _, _)
CollectNotes(locations, i, userLocation) ==
    IF i > Len(locations) THEN << >>
    ELSE LET location == locations[i]
             away == IF userLocation.known
                     THEN getDistance(userLocation, location.coordinate)
                     ELSE NotMeasured
             notes == WithDefaults(location.notes)
         IN  [j \in 1..Len(notes) |-> [note |-> notes[j], distance |-> away]]
                \o CollectNotes(locations, i + 1, userLocation)

getAllNotesSorted(locations, sortBy, userLocation, now) ==
    LET allNotes == CollectNotes(locations, 1, userLocation)
    IN  IF sortBy = "nearby" /\ ~userLocation.known THEN allNotes
        ELSE ArraySort(allNotes, sortBy, now)

\* The loop of getNearbyLocations over the keys from i on.
RECURSIVE NearbyLoop(_, _, _, _)
NearbyLoop(locations, i, c, radiusMeters) ==
    IF i > Len(locations) THEN << >>
    ELSE LET location == locations[i]
             rest == NearbyLoop(locations, i + 1, c, radiusMeters)
         IN  IF DistanceWithin(c, location.coordinate, radiusMeters)
             THEN << [gridLocation |-> [location EXCEPT !.notes = WithDefaults(@)],
                      distance |-> getDistance(c, location.coordinate)] >> \o rest
             ELSE rest

\* The radius is taken in radius units (0.999 m for a metre).
getNearbyLocations(locations, c, radiusMeters) ==
    ArraySort(NearbyLoop(locations, 1, c, radiusMeters), "distance", 0)

\* location?.notes || []
getNotesForLocation(locations, gridCode) ==
    IF KeyIndex(locations, gridCode) = 0 THEN << >>
    ELSE locations[KeyIndex(locations, gridCode)].notes

UpperCase ==
    << "A", "B", "C", "D", "E", "F", "G", "H", "I", "J", "K", "L", "M",
       "N", "O", "P", "Q", "R", "S", "T", "U", "V", "W", "X", "Y", "Z" >>

LowerCase ==
    << "a", "b", "c", "d", "e", "f", "g", "h", "i", "j", "k", "l", "m",
       "n", "o", "p", "q", "r", "s", "t", "u", "v", "w", "x", "y", "z" >>

\* String.prototype.toLowerCase
ToLowerCase(str) ==
    [i \in 1..Len(str) |->
        IF \E k \in 1..Len(UpperCase) : UpperCase[k] = str[i]
        THEN LowerCase[CHOOSE k \in 1..Len(UpperCase) : UpperCase[k] = str[i]]
        ELSE str[i]]

\* String.prototype.includes
Includes(str, part) ==
    \E i \in 1..(Len(str) + 1) :
        /\ i + Len(part) - 1 <= Len(str)
        /\ SubSeq(str, i, i + Len(part) - 1) = part

\* The notes of a list that match the query, with the default fields.
RECURSIVE MatchingNotes(_, _)
MatchingNotes(notes, lowerQuery) ==
    IF Len(notes) = 0 THEN << >>
    ELSE (IF Includes(ToLowerCase(notes[1].title), lowerQuery)
          THEN << Spread(createDefaultNoteFields, notes[1]) >>
          ELSE << >>)
            \o MatchingNotes(SubSeq(notes, 2, Len(notes)), lowerQuery)

RECURSIVE SearchLoop(_, _, _)
SearchLoop(locations, i, lowerQuery) ==
    IF i > Len(locations) THEN << >>
    ELSE MatchingNotes(locations[i].notes, lowerQuery) \o SearchLoop(locations, i + 1, lowerQuery)

searchNotes(locations, query) == SearchLoop(locations, 1, ToLowerCase(query))

(***************************************************************************)
(* The operations that change a stored note: voteOnNote, addReply,         *)
(* giveAward, and deleteNote.  An id is the number that generateId has     *)
(* counted to; votedBy is the function from the ids of the users who have  *)
(* a vote recorded to their votes; the texts and authors of replies and    *)
(* the counters of the user profile other than notesCount are not kept.    *)
(***************************************************************************)
\* location.notes.findIndex(n => n.id === noteId), counted from 1: 0 for -1.
FindIndex(notes, noteId) ==
    IF \E j \in 1..Len(notes) : notes[j].id = noteId
    THEN CHOOSE j \in 1..Len(notes) :
            /\ notes[j].id = noteId
            /\ \A k \in 1..(j - 1) : notes[k].id # noteId
    ELSE 0

\* note.votedBy[odId]
PreviousVote(note, odId) ==
    IF odId \in DOMAIN note.votedBy THEN note.votedBy[odId] ELSE "undefined"

\* delete votedBy[odId]
DeleteVote(votedBy, odId) == [u \in (DOMAIN votedBy) \ { odId } |-> votedBy[u]]

\* votedBy[odId] = voteType
SetVote(votedBy, odId, voteType) ==
    [u \in (DOMAIN votedBy) \cup { odId } |-> IF u = odId THEN voteType ELSE votedBy[u]]

\* The new vote is applied and the previous vote of the user is not taken
\* off the counters.
VotedNoteOnTop(note, odId, voteType) ==
    IF voteType = "none"
    THEN [note EXCEPT !.votedBy = DeleteVote(@, odId)]
    ELSE [note EXCEPT !.votedBy = SetVote(@, odId, voteType),
                      !.upvotes = IF voteType = "up" THEN @ + 1 ELSE @,
                      !.downvotes = IF voteType = "down" THEN @ + 1 ELSE @]

\* The note of voteOnNote after the previous vote of the user is removed and
\* the new vote is applied.
VotedNote(note, odId, voteType) ==
    LET previousVote == PreviousVote(note, odId)
        upvotes == IF previousVote = "up" THEN note.upvotes - 1 ELSE note.upvotes
        downvotes == IF previousVote = "down" THEN note.downvotes - 1 ELSE note.downvotes
    IN  IF voteType = "none"
        THEN [note EXCEPT !.votedBy = DeleteVote(@, odId),
                          !.upvotes = upvotes,
                          !.downvotes = downvotes]
        ELSE [note EXCEPT !.votedBy = SetVote(@, odId, voteType),
                          !.upvotes = IF voteType = "up" THEN upvotes + 1 ELSE upvotes,
                          !.downvotes = IF voteType = "down" THEN downvotes + 1 ELSE downvotes]

\* location.notes[noteIndex] = note; locations[gridCode] = location, for the
\* note of the id at the key; the locations as they are when the key or the
\* id is not found (the operation returns null).
WithNote(locations, gridCode, noteId, note) ==
    LET i == KeyIndex(locations, gridCode)
        j == IF i = 0 THEN 0 ELSE FindIndex(locations[i].notes, noteId)
    IN  IF j = 0 THEN locations
        ELSE SetKey(locations, gridCode, [locations[i] EXCEPT !.notes[j] = note])

\* The note that an operation finds, Blank when it finds none.
NoteAt(locations, gridCode, noteId) ==
    LET i == KeyIndex(locations, gridCode)
        j == IF i = 0 THEN 0 ELSE FindIndex(locations[i].notes, noteId)
    IN  IF j = 0 THEN Blank ELSE locations[i].notes[j]

\* The locations that voteOnNote writes.
voteOnNote(locations, gridCode, noteId, odId, voteType) ==
    LET note == NoteAt(locations, gridCode, noteId)
    IN  IF note = Blank THEN locations
        ELSE WithNote(locations, gridCode, noteId, VotedNote(note, odId, voteType))

\* newReply of addReply; parentId is null (<< >>) or << id >>.
NewReply(id, parentReplyId, now) ==
    [id |-> id,
     parentId |-> parentReplyId,
     createdAt |-> now,
     upvotes |-> 0,
     downvotes |-> 0,
     votedBy |-> << >>,
     replies |-> << >>]

\* addNestedReply(replies) from the reply at k on: the first reply of the id
\* in depth-first order gets the new reply; found is the value returned.
RECURSIVE addNestedReply(_, _, _, _)
addNestedReply(replies, k, parentReplyId, newReply) ==
    IF k > Len(replies) THEN [found |-> FALSE, replies |-> replies]
    ELSE IF replies[k].id = parentReplyId[1]
    THEN [found |-> TRUE,
          replies |-> [replies EXCEPT ![k].replies = Append(@, newReply)]]
    ELSE LET nested == addNestedReply(replies[k].replies, 1, parentReplyId, newReply)
         IN  IF nested.found
             THEN [found |-> TRUE,
                   replies |-> [replies EXCEPT ![k].replies = nested.replies]]
             ELSE addNestedReply(replies, k + 1, parentReplyId, newReply)

\* The note of addReply: the reply is pushed or nested, and replyCount++.
RepliedNote(note, parentReplyId, newReply) ==
    [note EXCEPT !.replies = IF parentReplyId = Null THEN Append(@, newReply)
                             ELSE addNestedReply(@, 1, parentReplyId, newReply).replies,
                 !.replyCount = @ + 1]

\* The locations that addReply writes.
addReply(locations, gridCode, noteId, parentReplyId, id, now) ==
    LET note == NoteAt(locations, gridCode, noteId)
    IN  IF note = Blank THEN locations
        ELSE WithNote(locations, gridCode, noteId,
                      RepliedNote(note, parentReplyId, NewReply(id, parentReplyId, now)))

\* The locations that giveAward writes.
giveAward(locations, gridCode, noteId, awardType, givenBy, id, now) ==
    LET note == NoteAt(locations, gridCode, noteId)
        award == [id |-> id, type |-> awardType, givenBy |-> givenBy, givenAt |-> now]
    IN  IF note = Blank THEN locations
        ELSE WithNote(locations, gridCode, noteId, [note EXCEPT !.awards = Append(@, award)])

\* location.notes.filter(n => n.id !== noteId)
RECURSIVE FilterOut(_, _)
FilterOut(notes, noteId) ==
    IF Len(notes) = 0 THEN << >>
    ELSE (IF notes[1].id # noteId THEN << notes[1] >> ELSE << >>)
            \o FilterOut(SubSeq(notes, 2, Len(notes)), noteId)

\* delete locations[gridCode]
DeleteKey(locations, gridCode) ==
    LET i == KeyIndex(locations, gridCode)
    IN  SubSeq(locations, 1, i - 1) \o SubSeq(locations, i + 1, Len(locations))

\* A location that has lost its last note stays in the locations.
deleteNoteOnly(locations, gridCode, noteId) ==
    LET i == KeyIndex(locations, gridCode)
        notes == FilterOut(locations[i].notes, noteId)
    IN  IF i = 0 THEN locations
        ELSE SetKey(locations, gridCode,
                    [locations[i] EXCEPT !.notes = notes, !.noteCount = Len(notes)])

\* The locations that deleteNote leaves: nothing is written when the key is
\* not found.
deleteNote(locations, gridCode, noteId) ==
    LET i == KeyIndex(locations, gridCode)
        notes == FilterOut(locations[i].notes, noteId)
    IN  IF i = 0 THEN locations
        ELSE IF Len(notes) = 0 THEN DeleteKey(locations, gridCode)
        ELSE SetKey(locations, gridCode,
                    [locations[i] EXCEPT !.notes = notes, !.noteCount = Len(notes)])

(***************************************************************************)
(* The QR code of a location (QRDisplayScreen) and the scanner             *)
(* (ScannerScreen in ViewLocationScreen.tsx).  A JSON text of an object is *)
(* the sequence of its members, in the order JSON.stringify writes them;   *)
(* any other scanned text is NotJson.                                      *)
(***************************************************************************)
Str(chars) == [t |-> "string", v |-> chars]

Num(n) == [t |-> "number", v |-> n]

Obj(o) == [t |-> "object", v |-> o]

\* The value of a property that an object does not have.
Missing == [t |-> "undefined", v |-> << >>]

HereNow == << "h", "e", "r", "e", "&", "n", "o", "w" >>

PlaceMemory == << "P", "l", "a", "c", "e", "M", "e", "m", "o", "r", "y" >>

NotJson == [json |-> FALSE, members |-> << >>]

\* JSON.stringify of an object: its members in order, without those whose
\* value is undefined.
RECURSIVE JsonMembers(_)
JsonMembers(members) ==
    IF Len(members) = 0 THEN << >>
    ELSE (IF members[1].value = Missing THEN << >> ELSE << members[1] >>)
            \o JsonMembers(SubSeq(members, 2, Len(members)))

JsonStringify(members) == [json |-> TRUE, members |-> JsonMembers(members)]

\* parsed[key] for the object that JSON.parse makes of the members: the last
\* member of that name, or undefined.
Get(members, key) ==
    IF \E i \in 1..Len(members) : members[i].key = key
    THEN LET last == CHOOSE i \in 1..Len(members) :
                        /\ members[i].key = key
                        /\ \A j \in (i + 1)..Len(members) : members[j].key # key
         IN  members[last].value
    ELSE Missing

\* The value counts as true in a condition.
Truthy(value) ==
    CASE value.t = "string" -> Len(value.v) > 0
      [] value.t = "number" -> value.v # 0
      [] value.t = "object" -> TRUE
      [] OTHER -> FALSE

\* The text that QRDisplayScreen hands to the QR code of gridCode.
QrValue(gridCode) ==
    LET coordinate == gridCodeToCoordinate(gridCode)
    IN  JsonStringify(<< [key |-> "type", value |-> Str(HereNow)],
                         [key |-> "version", value |-> Num(1)],
                         [key |-> "gridCode", value |-> Str(gridCode)],
                         [key |-> "coordinate",
                          value |-> Obj(Coordinate(coordinate.latitude, coordinate.longitude))] >>)

Navigated(data, name, gridCode) ==
    [kind |-> "scan", data |-> data, route |-> << name, gridCode >>, alert |-> << >>,
     scanned |-> TRUE]

Alerted(data, title, message, scanned) ==
    [kind |-> "scan", data |-> data, route |-> << >>, alert |-> << title, message >>,
     scanned |-> scanned]

\* handleBarCodeScanned on a scanner that has not scanned yet.
handleBarCodeScanned(data, locations) ==
    IF ~data.json
    THEN Alerted(data, "Invalid QR Code", "Could not read this QR code.", FALSE)
    ELSE LET type == Get(data.members, "type")
             gridCode == Get(data.members, "gridCode")
         IN  IF type = Str(PlaceMemory) /\ Truthy(gridCode)
             THEN IF gridCode.t = "string" /\ KeyIndex(locations, gridCode.v) # 0
                  THEN Navigated(data, "ViewLocation", gridCode.v)
                  ELSE IF gridCode.t = "string" /\ isValidGridCode(gridCode.v)
                  THEN Alerted(data, "New Location",
                               "No stories have been shared at this location yet. Be the first to add one!",
                               TRUE)
                  ELSE Alerted(data, "Invalid Code", "This QR code is not recognized.", FALSE)
             ELSE Alerted(data, "Invalid QR Code", "This is not a PlaceMemory QR code.", FALSE)

(***************************************************************************)
(* SpecStore: the application has started and put its demo data in the     *)
(* empty storage; notes are saved one call at a time, time passes, and the *)
(* saved notes are read, displayed as QR codes and scanned.  Every         *)
(* operation starts from the blank screen, to which Leave returns.         *)
(***************************************************************************)
\* The notes saved after the demo data.
MaxNotes == 2

MaxClock == 1

\* capsuleDays, the shortest of CAPSULE_DURATIONS.
CapsuleDays == 1

\* Three places at the equator: two in one sub-cell and one six cells east.
StoreCoords == { Coordinate(0, 0), Coordinate(1, 1), Coordinate(0, 60) }

\* Nowhere, at the first place, and 600 lattice units (600 m) east of it.
Viewers == { NoLocation, Known(Coordinate(0, 0)), Known(Coordinate(0, 600)) }

Title == << "O", "l", "d", " ", "O", "a", "k" >>

\* The noteData of addDemoData, which has no story type, whisper radius or
\* unlock time: one demo note stands for the four.
DemoData ==
    [title |-> << "T", "h", "e", " ", "O", "l", "d", " ",
                  "C", "o", "f", "f", "e", "e", " ", "S", "h", "o", "p" >>]

DemoNotes == << DemoData >>

\* currentLocation plus the random offsets: a place in the cell six cells east.
DemoCoord == Coordinate(3, 64)

Queries == { << "o", "a", "k" >>, << "e", "l", "m" >> }

SortOptions == { "hot", "new", "top", "nearby" }

\* What the form of AddNoteScreen is filled with: a story, a story with the
\* smallest whisper radius, a time capsule.
NoteKinds ==
    { [storyType |-> "story", whisperRadius |-> Null],
      [storyType |-> "story", whisperRadius |-> Some(50)],
      [storyType |-> "timecapsule", whisperRadius |-> Null] }

\* getUnlockTimestamp() of AddNoteScreen
getUnlockTimestamp(storyType, now) ==
    IF storyType # "timecapsule" THEN Null ELSE Some(now + CapsuleDays)

\* The noteData that handleSave of AddNoteScreen passes to saveNote.
NoteData(kind, now) ==
    [title |-> Title,
     storyType |-> kind.storyType,
     whisperRadius |-> kind.whisperRadius,
     unlockAt |-> getUnlockTimestamp(kind.storyType, now)]

StoredCodes == { store[i].key : i \in 1..Len(store) }

StoredNotes ==
    UNION { { store[i].notes[j] : j \in 1..Len(store[i].notes) } : i \in 1..Len(store) }

\* Texts a scanner can meet besides the QR codes of the application: no JSON,
\* and PlaceMemory payloads with a stored code, a valid code that is not
\* stored, a code that is not valid, and no code.
ForeignData ==
    { NotJson,
      JsonStringify(<< [key |-> "type", value |-> Str(PlaceMemory)] >>) }
    \cup { JsonStringify(<< [key |-> "type", value |-> Str(PlaceMemory)],
                            [key |-> "gridCode", value |-> Str(g)] >>) :
             g \in StoredCodes \cup { coordinateToGridCode(NewDelhi), << "0", "O" >> } }

InitStore ==
    /\ coord = NewDelhi
    /\ other = NewDelhi
    /\ code = << >>
    /\ otherCode = << >>
    /\ center = NotCalled
    /\ recode = << >>
    /\ cell = NoCell
    /\ input = << >>
    /\ valid = "none"
    /\ decoded = NotCalled
    /\ pc = "start"
    /\ origin = NewDelhi
    /\ radius = 0
    /\ lat = 0
    /\ lng = 0
    /\ codes = << >>
    /\ DistIdle
    /\ FormatIdle
    /\ store = SavedLocations(<< >>, DemoCoord, NewNote(DemoCoord, DemoData, 1, 0), 0)
    /\ notesCount = Len(DemoNotes)
    /\ clock = 0
    /\ nextId = Len(DemoNotes)
    /\ drafts = DemoNotes
    /\ screen = Blank
    /\ AsyncIdle

restVars == <<codecVars, inputVars, sweepVars, distVars, formatVars, asyncVars, pc>>

\* Date.now() moves on.
Tick ==
    /\ screen = Blank
    /\ clock < MaxClock
    /\ clock' = clock + 1
    /\ UNCHANGED <<restVars, store, notesCount, nextId, drafts, screen>>

\* saveNote(coordinate, noteData) from AddNoteScreen, completed: getAllLocations
\* has read the stored object and setItem has written it back.
SaveNote ==
    /\ screen = Blank
    /\ nextId < Len(DemoNotes) + MaxNotes
    /\ \E coordinate \in StoreCoords : \E kind \in NoteKinds :
          LET noteData == NoteData(kind, clock)
              note == NewNote(coordinate, noteData, nextId + 1, clock)
          IN  /\ store' = SavedLocations(store, coordinate, note, clock)
              /\ drafts' = Append(drafts, noteData)
    /\ nextId' = nextId + 1
    /\ notesCount' = notesCount + 1
    /\ screen' = Blank
    /\ UNCHANGED <<restVars, clock>>

\* saveNote when AsyncStorage.setItem rejects: the error is thrown on, and
\* neither the locations nor the user profile are written.
SaveNoteFails ==
    /\ screen = Blank
    /\ nextId < Len(DemoNotes) + MaxNotes
    /\ screen' = [kind |-> "error"]
    /\ UNCHANGED <<restVars, store, notesCount, clock, nextId, drafts>>

\* NearbyScreen loads its list.
GetAllNotesSorted ==
    /\ screen = Blank
    /\ \E sortBy \in SortOptions : \E userLocation \in Viewers :
          screen' = [kind |-> "getAllNotesSorted", sortBy |-> sortBy, at |-> clock,
                     viewer |-> userLocation,
                     result |-> getAllNotesSorted(store, sortBy, userLocation, clock)]
    /\ UNCHANGED <<restVars, store, notesCount, clock, nextId, drafts>>

\* getNearbyLocations(center) with the default radius of 5000.
GetNearbyLocations ==
    /\ screen = Blank
    /\ \E userLocation \in Viewers \ { NoLocation } :
          screen' = [kind |-> "getNearbyLocations", at |-> clock, viewer |-> userLocation,
                     result |-> getNearbyLocations(store, userLocation, 5000)]
    /\ UNCHANGED <<restVars, store, notesCount, clock, nextId, drafts>>

GetNotesForLocation ==
    /\ screen = Blank
    /\ \E gridCode \in StoredCodes \cup { coordinateToGridCode(NewDelhi) } :
          screen' = [kind |-> "getNotesForLocation", at |-> clock,
                     result |-> getNotesForLocation(store, gridCode)]
    /\ UNCHANGED <<restVars, store, notesCount, clock, nextId, drafts>>

SearchNotes ==
    /\ screen = Blank
    /\ \E query \in Queries : \E userLocation \in Viewers :
          screen' = [kind |-> "searchNotes", at |-> clock, viewer |-> userLocation,
                     result |-> searchNotes(store, query)]
    /\ UNCHANGED <<restVars, store, notesCount, clock, nextId, drafts>>

\* navigation.navigate('NoteDetail', { note }) from a list of stored notes.
OpenNoteDetail ==
    /\ screen = Blank
    /\ \E note \in StoredNotes :
          screen' = [kind |-> "NoteDetail", at |-> clock, result |-> << note >>]
    /\ UNCHANGED <<restVars, store, notesCount, clock, nextId, drafts>>

\* QRDisplayScreen for the code of a stored location.
ShowQr ==
    /\ screen = Blank
    /\ \E gridCode \in StoredCodes :
          screen' = [kind |-> "QRDisplay", gridCode |-> gridCode, qrValue |-> QrValue(gridCode)]
    /\ UNCHANGED <<restVars, store, notesCount, clock, nextId, drafts>>

\* The scanner reads a QR code of the application or some other text.
Scan ==
    /\ screen = Blank
    /\ \E data \in { QrValue(g) : g \in StoredCodes } \cup ForeignData :
          screen' = handleBarCodeScanned(data, store)
    /\ UNCHANGED <<restVars, store, notesCount, clock, nextId, drafts>>

\* The user leaves the screen.
Leave ==
    /\ screen # Blank
    /\ screen' = Blank
    /\ UNCHANGED <<restVars, store, notesCount, clock, nextId, drafts>>

NextStore ==
    \/ Tick
    \/ SaveNote
    \/ SaveNoteFails
    \/ GetAllNotesSorted
    \/ GetNearbyLocations
    \/ GetNotesForLocation
    \/ SearchNotes
    \/ OpenNoteDetail
    \/ ShowQr
    \/ Scan
    \/ Leave

SpecStore == InitStore /\ [][NextStore]_vars

(***************************************************************************)
(* SpecOps: after start-up, saveNote, voteOnNote, addReply, giveAward and  *)
(* deleteNote are called one at a time, each call completing before the    *)
(* next one starts, one call a day.                                        *)
(***************************************************************************)
MaxOps == 4

\* The ids of two users.
Users == { "u1", "u2" }

VoteTypes == { "up", "down", "none" }

\* A place in the cell of the demo note and a place six cells west of it.
OpsCoords == { Coordinate(0, 60), Coordinate(0, 0) }

\* The gridCode and noteId of a call: those of a stored note, a stored key
\* with an id that no note has, and a key that is not stored.
Targets ==
    { << n.gridCode, n.id >> : n \in StoredNotes }
        \cup { << g, 0 >> : g \in StoredCodes }
        \cup { << coordinateToGridCode(NewDelhi), 1 >> }

RECURSIVE ReplyIds(_)
ReplyIds(replies) ==
    UNION { { replies[k].id } \cup ReplyIds(replies[k].replies) : k \in 1..Len(replies) }

\* parentReplyId: null, the id of a stored reply, or an id that matches none.
Parents == { Null, Some(0) } \cup { Some(id) : id \in UNION { ReplyIds(n.replies) : n \in StoredNotes } }

Found(target) == NoteAt(store, target[1], target[2]) # Blank

DoSaveNote ==
    /\ clock < MaxOps
    /\ \E coordinate \in OpsCoords :
          store' = SavedLocations(store, coordinate,
                                  NewNote(coordinate, DemoData, nextId + 1, clock), clock)
    /\ drafts' = Append(drafts, DemoData)
    /\ nextId' = nextId + 1
    /\ notesCount' = notesCount + 1
    /\ clock' = clock + 1
    /\ UNCHANGED <<restVars, screen>>

DoVoteOnNote ==
    /\ clock < MaxOps
    /\ \E target \in Targets : \E odId \in Users : \E voteType \in VoteTypes :
          store' = voteOnNote(store, target[1], target[2], odId, voteType)
    /\ clock' = clock + 1
    /\ UNCHANGED <<restVars, notesCount, nextId, drafts, screen>>

DoAddReply ==
    /\ clock < MaxOps
    /\ \E target \in Targets : \E parentReplyId \in Parents :
          /\ store' = addReply(store, target[1], target[2], parentReplyId, nextId + 1, clock)
          /\ nextId' = IF Found(target) THEN nextId + 1 ELSE nextId
    /\ clock' = clock + 1
    /\ UNCHANGED <<restVars, notesCount, drafts, screen>>

DoGiveAward ==
    /\ clock < MaxOps
    /\ \E target \in Targets :
          /\ store' = giveAward(store, target[1], target[2], "gold", "u1", nextId + 1, clock)
          /\ nextId' = IF Found(target) THEN nextId + 1 ELSE nextId
    /\ clock' = clock + 1
    /\ UNCHANGED <<restVars, notesCount, drafts, screen>>

DoDeleteNote ==
    /\ clock < MaxOps
    /\ \E target \in Targets : store' = deleteNote(store, target[1], target[2])
    /\ clock' = clock + 1
    /\ UNCHANGED <<restVars, notesCount, nextId, drafts, screen>>

NextOps == DoSaveNote \/ DoVoteOnNote \/ DoAddReply \/ DoGiveAward \/ DoDeleteNote

SpecOps == InitStore /\ [][NextOps]_vars

(***************************************************************************)
(* SpecRace: two storage calls are in flight together.  Every call awaits  *)
(* getAllLocations, which parses the stored string into an object of its   *)
(* own, and runs from there to its setItem without another await: the      *)
(* steps of a call are the read and the write.  The first call is a        *)
(* saveNote, the second any of the five calls that write the locations.    *)
(***************************************************************************)
\* The calls a task may make on the stored locations.
CallsOf(t) ==
    { [name |-> "saveNote", coordinate |-> c] : c \in OpsCoords }
        \cup IF t = 1 THEN { }
             ELSE { [name |-> "voteOnNote", target |-> g, odId |-> u, voteType |-> v] :
                        g \in Targets, u \in Users, v \in VoteTypes }
                  \cup { [name |-> n, target |-> g] :
                        n \in { "addReply", "giveAward", "deleteNote" }, g \in Targets }

\* Whether the call reaches its setItem: voteOnNote, addReply and giveAward
\* return null without a note, deleteNote writes whenever the key exists.
ReachesSetItem(call, locations) ==
    CASE call.name = "saveNote" -> TRUE
      [] call.name = "deleteNote" -> KeyIndex(locations, call.target[1]) # 0
      [] OTHER -> NoteAt(locations, call.target[1], call.target[2]) # Blank

\* Whether the call takes an id from generateId.
GeneratesId(call, locations) ==
    call.name \in { "saveNote", "addReply", "giveAward" } /\ ReachesSetItem(call, locations)

\* The object the call hands to setItem, made of the object it has read.
Written(call, locations, id, now) ==
    CASE call.name = "saveNote" ->
            SavedLocations(locations, call.coordinate,
                           NewNote(call.coordinate, DemoData, id, now), now)
      [] call.name = "voteOnNote" ->
            voteOnNote(locations, call.target[1], call.target[2], call.odId, call.voteType)
      [] call.name = "addReply" ->
            addReply(locations, call.target[1], call.target[2], Null, id, now)
      [] call.name = "giveAward" ->
            giveAward(locations, call.target[1], call.target[2], "gold", "u1", id, now)
      [] call.name = "deleteNote" ->
            deleteNote(locations, call.target[1], call.target[2])

\* The call is made and its getAllLocations resolves with the stored object.
GetAllLocations ==
    \E t \in Tasks :
        /\ tasks[t].pc = "idle"
        /\ \E call \in CallsOf(t) :
              tasks' = [tasks EXCEPT ![t] = [pc |-> "read", call |-> call, locations |-> store]]
        /\ UNCHANGED <<codecVars, inputVars, sweepVars, distVars, formatVars, storeVars, boot, pc>>

\* The call goes on from its await to the end: it changes the object it has
\* read and writes it with setItem.
SetItem ==
    \E t \in Tasks :
        /\ tasks[t].pc = "read"
        /\ LET call == tasks[t].call
               locations == tasks[t].locations
           IN  /\ store' = IF ReachesSetItem(call, locations)
                           THEN Written(call, locations, nextId + 1, clock)
                           ELSE store
               /\ nextId' = IF GeneratesId(call, locations) THEN nextId + 1 ELSE nextId
               /\ notesCount' = IF call.name = "saveNote" THEN notesCount + 1 ELSE notesCount
               /\ drafts' = IF call.name = "saveNote" THEN Append(drafts, DemoData) ELSE drafts
               /\ tasks' = [tasks EXCEPT ![t] = [pc |-> "done", call |-> call,
                                                 locations |-> locations, id |-> nextId + 1]]
        /\ UNCHANGED <<codecVars, inputVars, sweepVars, distVars, formatVars, boot, pc, clock, screen>>

NextRace == GetAllLocations \/ SetItem

SpecRace == InitStore /\ [][NextRace]_vars

(***************************************************************************)
(* SpecBoot: the init effect of AppProvider, one step for every await and  *)
(* the code up to the next one.  refreshUser, requestLocationPermission,   *)
(* getAllLocations and refreshLocations catch what their calls throw;      *)
(* Location.getCurrentPositionAsync and addDemoData inside init do not.    *)
(* A saveNote of addDemoData reads the stored locations and either writes  *)
(* them or throws what setItem has thrown.                                 *)
(***************************************************************************)
\* The positions Location.getCurrentPositionAsync may resolve with.
Positions == { Coordinate(0, 60), Coordinate(0, 0) }

\* (Math.random() - 0.5) * 0.01 for the latitude and the longitude: below
\* 0.005 degrees, 555 lattice units, either way.
Offsets == { Coordinate(3, 4), Coordinate(-2, -5) }

\* const [isLoading, setIsLoading] = useState(true), and the other state of
\* the provider as null and false.
Mounted ==
    [step |-> "mounted", isLoading |-> TRUE, user |-> FALSE, locationPermission |-> FALSE,
     userLocation |-> NoLocation, currentLocation |-> NewDelhi, inTry |-> FALSE, i |-> 0]

\* The application starts on a fresh installation or with stored notes.
InitBoot ==
    /\ coord = NewDelhi
    /\ other = NewDelhi
    /\ code = << >>
    /\ otherCode = << >>
    /\ center = NotCalled
    /\ recode = << >>
    /\ cell = NoCell
    /\ input = << >>
    /\ valid = "none"
    /\ decoded = NotCalled
    /\ pc = "start"
    /\ origin = NewDelhi
    /\ radius = 0
    /\ lat = 0
    /\ lng = 0
    /\ codes = << >>
    /\ DistIdle
    /\ FormatIdle
    /\ \E n \in { 0, Len(DemoNotes) } :
          /\ store = IF n = 0 THEN << >>
                     ELSE SavedLocations(<< >>, DemoCoord, NewNote(DemoCoord, DemoData, 1, 0), 0)
          /\ notesCount = n
          /\ nextId = n
          /\ drafts = SubSeq(DemoNotes, 1, n)
    /\ clock = 0
    /\ screen = Blank
    /\ tasks = [t \in Tasks |-> [pc |-> "idle"]]
    /\ boot = Mounted

bootRest == <<codecVars, inputVars, sweepVars, distVars, formatVars, pc, tasks, screen, clock>>

\* init(): setIsLoading(true), then refreshUser is called.
StartInit ==
    /\ boot.step = "mounted"
    /\ boot' = [boot EXCEPT !.step = "refreshUser", !.isLoading = TRUE]
    /\ UNCHANGED <<bootRest, store, notesCount, nextId, drafts>>

\* await refreshUser(): the profile is set, or the error is logged.
RefreshUser ==
    /\ boot.step = "refreshUser"
    /\ \E got \in BOOLEAN :
          boot' = [boot EXCEPT !.step = "requestLocationPermission", !.user = got]
    /\ UNCHANGED <<bootRest, store, notesCount, nextId, drafts>>

\* await requestLocationPermission(): the request throws, is denied, or is
\* granted and the position is read or the reading throws.
RequestLocationPermission ==
    /\ boot.step = "requestLocationPermission"
    /\ \/ boot' = [boot EXCEPT !.step = "getAllLocations"]
       \/ \E position \in Positions :
             boot' = [boot EXCEPT !.step = "getAllLocations", !.locationPermission = TRUE,
                                  !.userLocation = Known(position)]
       \/ boot' = [boot EXCEPT !.step = "getAllLocations", !.locationPermission = TRUE]
    /\ UNCHANGED <<bootRest, store, notesCount, nextId, drafts>>

\* const allLocations = await getAllLocations(), which is {} when the read
\* throws, and the test Object.keys(allLocations).length === 0.
LoadLocations ==
    /\ boot.step = "getAllLocations"
    /\ \E allLocations \in { store, << >> } :
          boot' = [boot EXCEPT !.step = IF Len(allLocations) = 0 THEN "getCurrentPosition"
                                        ELSE "refreshLocations"]
    /\ UNCHANGED <<bootRest, store, notesCount, nextId, drafts>>

\* await Location.getCurrentPositionAsync inside the try: it resolves and
\* addDemoData is called with the position, or it throws and the catch
\* calls addDemoData with the default location.
GetCurrentPosition ==
    /\ boot.step = "getCurrentPosition"
    /\ \/ \E position \in Positions :
             boot' = [boot EXCEPT !.step = "addDemoData", !.inTry = TRUE,
                                  !.currentLocation = position, !.i = 0]
       \/ boot' = [boot EXCEPT !.step = "addDemoData", !.inTry = FALSE,
                               !.currentLocation = NewDelhi, !.i = 0]
    /\ UNCHANGED <<bootRest, store, notesCount, nextId, drafts>>

\* await saveNote(coord, demoNotes[i]) of addDemoData completes; after the
\* last note addDemoData returns and refreshLocations is called.
SaveDemoNote ==
    /\ boot.step = "addDemoData"
    /\ \E offset \in Offsets :
          LET coordinate == Coordinate(boot.currentLocation.latitude + offset.latitude,
                                       boot.currentLocation.longitude + offset.longitude)
              noteData == DemoNotes[boot.i + 1]
          IN  /\ store' = SavedLocations(store, coordinate,
                                         NewNote(coordinate, noteData, nextId + 1, clock), clock)
              /\ drafts' = Append(drafts, noteData)
    /\ nextId' = nextId + 1
    /\ notesCount' = notesCount + 1
    /\ boot' = [boot EXCEPT !.i = @ + 1,
                            !.step = IF boot.i + 1 < Len(DemoNotes) THEN "addDemoData"
                                     ELSE "refreshLocations"]
    /\ UNCHANGED bootRest

\* setItem rejects in a saveNote of addDemoData: saveNote and addDemoData
\* throw.  Inside the try the catch calls addDemoData with the default
\* location; inside the catch nothing handles the error and init ends.
SaveDemoNoteThrows ==
    /\ boot.step = "addDemoData"
    /\ boot' = IF boot.inTry
               THEN [boot EXCEPT !.inTry = FALSE, !.currentLocation = NewDelhi, !.i = 0]
               ELSE [boot EXCEPT !.step = "rejected"]
    /\ UNCHANGED <<bootRest, store, notesCount, nextId, drafts>>

\* await refreshLocations(), then setIsLoading(false).
RefreshLocations ==
    /\ boot.step = "refreshLocations"
    /\ boot' = [boot EXCEPT !.step = "ready", !.isLoading = FALSE]
    /\ UNCHANGED <<bootRest, store, notesCount, nextId, drafts>>

NextBoot ==
    \/ StartInit
    \/ RefreshUser
    \/ RequestLocationPermission
    \/ LoadLocations
    \/ GetCurrentPosition
    \/ SaveDemoNote
    \/ SaveDemoNoteThrows
    \/ RefreshLocations

SpecBoot == InitBoot /\ [][NextBoot]_vars

\* Every awaited call returns or throws in the end: a step that can be taken
\* is taken.
FairSpecBoot == SpecBoot /\ WF_vars(NextBoot)

(***************************************************************************)
(* Properties of the codec.                                                *)
(***************************************************************************)
\* The cell of c, as the half-open box of the claim.
InCellOf(c, d) ==
    /\ d.latitude >= latIndexOf(c) * LATITUDE_PRECISION - Lat90
    /\ d.latitude < (latIndexOf(c) + 1) * LATITUDE_PRECISION - Lat90
    /\ d.longitude >= lngIndexOf(c) * LONGITUDE_PRECISION - Lng180
    /\ d.longitude < (lngIndexOf(c) + 1) * LONGITUDE_PRECISION - Lng180

\* The shape AAAA-BBBB-CC: twelve characters, hyphens at 5 and 10, alphabet
\* characters elsewhere.
Shape(s) ==
    /\ Len(s) = 12
    /\ \A i \in 1..12 : IF i \in {5, 10} THEN s[i] = "-" ELSE s[i] \in AlphabetClass

\* Three hyphen-separated groups of lengths 4, 4 and 2 of alphabet characters.
WellFormed(s) ==
    LET parts == Split(s) IN
    /\ Len(parts) = 3
    /\ Len(parts[1]) = 4 /\ Len(parts[2]) = 4 /\ Len(parts[3]) = 2
    /\ \A k \in 1..3 : \A i \in 1..Len(parts[k]) : parts[k][i] \in AlphabetClass

\* C1: for every coordinate in the valid ranges, decoding its code returns a
\* coordinate inside the grid cell that contains the coordinate.
C1_RoundTripInCell ==
    (pc \in {"decoded", "reencoded"} /\ InValidRange(coord))
        => (center.status = "ok" /\ InCellOf(coord, center))

\* C2: encoding the decoded centre of a code again gives the same code.
C2_ReencodeIdempotent ==
    (pc = "reencoded" /\ InValidRange(coord)) => recode = code

C2_Witness ==
    /\ pc = "reencoded"
    /\ latIndexOf(coord) >= GroupSpan \div LATITUDE_PRECISION
    /\ subIndexOf(coord) # 0
    /\ recode = code

\* C3: two valid coordinates whose (latIndex, lngIndex, subIndex) triples
\* differ never get the same code.
C3_NoCollision ==
    (/\ pc = "paired"
     /\ InValidRange(coord) /\ InValidRange(other)
     /\ <<latIndexOf(coord), lngIndexOf(coord), subIndexOf(coord)>>
            # <<latIndexOf(other), lngIndexOf(other), subIndexOf(other)>>)
        => code # otherCode

\* C4: two valid coordinates of the same grid cell (same latIndex and same
\* lngIndex) get the same code.
C4_CellOneCode ==
    (/\ pc = "paired"
     /\ InValidRange(coord) /\ InValidRange(other)
     /\ latIndexOf(coord) = latIndexOf(other)
     /\ lngIndexOf(coord) = lngIndexOf(other))
        => code = otherCode

\* C5: every code the encoder returns for a valid coordinate has the shape
\* AAAA-BBBB-CC over the alphabet, and isValidGridCode accepts it.
C5_EncoderFormat ==
    /\ (code # << >> /\ InValidRange(coord)) => Shape(code)
    /\ (otherCode # << >> /\ InValidRange(other)) => Shape(otherCode)
    /\ (pc = "validated" /\ InValidRange(coord)) => valid = "true"

C5_Witness ==
    /\ pc = "validated"
    /\ coord = Coordinate(Lat90, Lng180)
    /\ Len(code) = 12
    /\ valid = "true"

\* C6: isValidGridCode is true exactly for the strings of the shape
\* AAAA-BBBB-CC over the alphabet and false for every other string.
C6_ValidatorExact ==
    valid # "none" => (valid = "true" <=> Shape(input))

C6_Witness ==
    /\ valid = "false"
    /\ Len(input) = 12
    /\ input[5] = "-" /\ input[10] = "-"
    /\ \E i \in 1..12 : input[i] \in {"0", "O", "1", "I", "L", "z"}

\* C7: gridCodeToCoordinate fails, and yields no coordinate, for every string
\* that is not three hyphen-separated groups of lengths 4, 4 and 2 of
\* alphabet characters.
C7_DecodeRejectsMalformed ==
    (decoded.status # "none" /\ ~WellFormed(input)) => decoded.status = "error"

\* C23: every string that isValidGridCode accepts is canonical: the code of
\* the coordinate it decodes to is the string itself.
C23_ValidIsCanonical ==
    (valid = "true" /\ recode # << >>) => recode = input

(***************************************************************************)
(* Properties of getGridCodesInRadius.                                     *)
(***************************************************************************)
ProbeSpan == 10

\* The coordinates around c whose cells the sweep is expected to report.
Probes(c) ==
    { Coordinate(c.latitude + dy, c.longitude + dx) :
        dy \in (-ProbeSpan)..ProbeSpan, dx \in (-ProbeSpan)..ProbeSpan }

\* The four corners of the grid cell of p.
CellCorners(p) ==
    { Coordinate((latIndexOf(p) + i) * LATITUDE_PRECISION - Lat90,
                 (lngIndexOf(p) + j) * LONGITUDE_PRECISION - Lng180) :
        i \in {0, 1}, j \in {0, 1} }

\* Every point of the cell of p is within distance r of c.
CellWithin(p, c, r) == \A q \in CellCorners(p) : DistanceWithin(c, q, r)

\* The lattice sample points of the sweep around c that pass the distance test.
SamplesWithin(c, r) ==
    { q \in { Coordinate(c.latitude - LatDegrees(r) + i * LATITUDE_PRECISION,
                         c.longitude - LngDegrees(r, c) + j * LONGITUDE_PRECISION) :
                i \in 0..((2 * LatDegrees(r)) \div LATITUDE_PRECISION),
                j \in 0..((2 * LngDegrees(r, c)) \div LONGITUDE_PRECISION) } :
        DistanceWithin(c, q, r) }

\* C8: the result holds the code of every coordinate whose whole grid cell is
\* within the radius, the code of the centre included once its cell is covered.
C8_CellsWithinRadius ==
    pc = "done" =>
        \A p \in Probes(origin) :
            (InValidRange(p) /\ ~AtPole(origin) /\ CellWithin(p, origin, radius))
                => Contains(codes, coordinateToGridCode(p))

\* C9: with radius 0 the call returns, and the result holds the code of the
\* centre and nothing else.
C9_ZeroRadius ==
    /\ (pc = "done" /\ radius = 0) => codes = << coordinateToGridCode(origin) >>
    /\ (pc # "done" /\ radius = 0) => ENABLED NextSweep

C9_Witness ==
    /\ pc = "done"
    /\ radius = 0
    /\ origin.latitude = Lat90
    /\ Len(codes) = 1

\* C10: the returned list never holds the same code twice.
C10_NoDuplicates ==
    \A i \in 1..Len(codes) : \A j \in 1..Len(codes) : i # j => codes[i] # codes[j]

C10_Witness ==
    /\ pc = "done"
    /\ \E p \in SamplesWithin(origin, radius) : \E q \in SamplesWithin(origin, radius) :
          p # q /\ coordinateToGridCode(p) = coordinateToGridCode(q)

\* The lattice sample points of the sweep around c, within the radius or not.
Samples(c, r) ==
    { Coordinate(c.latitude - LatDegrees(r) + i * LATITUDE_PRECISION,
                 c.longitude - LngDegrees(r, c) + j * LONGITUDE_PRECISION) :
        i \in 0..((2 * LatDegrees(r)) \div LATITUDE_PRECISION),
        j \in 0..((2 * LngDegrees(r, c)) \div LONGITUDE_PRECISION) }

C11_Terminates == <>(pc = "done")

(***************************************************************************)
(* Properties of getDistance.                                              *)
(***************************************************************************)
\* The comparison of two numbers: NaN equals nothing, itself included.
NumEq(x, y) == ~x.nan /\ ~y.nan /\ x = y

\* x > 0
Positive(x) == ~x.nan /\ (x.big > 0 \/ x.local > 0 \/ x.tiny)

\* C12: getDistance(A, B) equals getDistance(B, A) for every pair of
\* coordinates in the valid ranges.
C12_Symmetric ==
    (distance # NotMeasured /\ reverse # NotMeasured) => NumEq(distance, reverse)

\* C13: getDistance(A, A) is 0, getDistance(A, B) is above 0 for A different
\* from B, pairs at a pole or on the antimeridian included, and the result is
\* a number for identical and for antipodal inputs.
C13_ZeroIffIdentical ==
    distance # NotMeasured =>
        /\ ~distance.nan
        /\ coord = other => NumEq(distance, Quantity(0, 0, FALSE))
        /\ coord # other => Positive(distance)

(***************************************************************************)
(* Properties of formatDistance.                                           *)
(***************************************************************************)
\* The number a string of decimal digits stands for, -1 for any other string.
RECURSIVE ParseNat(_)
ParseNat(str) ==
    IF Len(str) = 0 THEN -1
    ELSE LET last == str[Len(str)]
             digit == IF \E i \in 1..10 : DigitChars[i] = last
                      THEN (CHOOSE i \in 1..10 : DigitChars[i] = last) - 1
                      ELSE -1
             front == IF Len(str) = 1 THEN 0 ELSE ParseNat(SubSeq(str, 1, Len(str) - 1))
         IN  IF digit < 0 \/ front < 0 THEN -1 ELSE front * 10 + digit

\* str is an integer followed by "m", and the integer is a nearest one to m.
RoundedMetres(str, m) ==
    LET k == Len(str)
        n == ParseNat(SubSeq(str, 1, k - 1))
    IN  /\ k >= 2
        /\ str[k] = "m"
        /\ n >= 0
        /\ Abs(Metres(n) - m) <= 50

\* str is a number with one decimal followed by "km", and the number is a
\* nearest one to m / 1000.
OneDecimalKilometres(str, m) ==
    LET k == Len(str)
        whole == ParseNat(SubSeq(str, 1, k - 4))
        tenth == ParseNat(SubSeq(str, k - 2, k - 2))
    IN  /\ k >= 5
        /\ SubSeq(str, k - 1, k) = << "k", "m" >>
        /\ str[k - 3] = "."
        /\ whole >= 0
        /\ tenth >= 0
        /\ Abs((whole * 10 + tenth) * Metres(100) - m) <= Metres(50)

\* C14: formatDistance(m) is m rounded to the nearest integer and "m" below
\* 1000, and m / 1000 with one decimal and "km" from 1000 on; 50 gives "50m",
\* 999 "999m", 1000 "1.0km" and 2500 "2.5km".
C14_FormatDistance ==
    formatted # << >> =>
        /\ meters < Metres(1000) => RoundedMetres(formatted, meters)
        /\ meters >= Metres(1000) => OneDecimalKilometres(formatted, meters)
        /\ meters = Metres(50) => formatted = << "5", "0", "m" >>
        /\ meters = Metres(999) => formatted = << "9", "9", "9", "m" >>
        /\ meters = Metres(1000) => formatted = << "1", ".", "0", "k", "m" >>
        /\ meters = Metres(2500) => formatted = << "2", ".", "5", "k", "m" >>

C14_Witness ==
    /\ meters = Metres(1000)
    /\ formatted = << "1", ".", "0", "k", "m" >>

(***************************************************************************)
(* Properties of getGridCell.                                              *)
(***************************************************************************)
\* The edges of the quantization cell that contains c.
CellEdges(c) ==
    [south |-> latIndexOf(c) * LATITUDE_PRECISION - Lat90,
     north |-> latIndexOf(c) * LATITUDE_PRECISION - Lat90 + LATITUDE_PRECISION,
     west |-> lngIndexOf(c) * LONGITUDE_PRECISION - Lng180,
     east |-> lngIndexOf(c) * LONGITUDE_PRECISION - Lng180 + LONGITUDE_PRECISION]

\* C15: getGridCell(c) holds the code of c, the centre decoded from that code,
\* and as bounds the edges of the quantization cell that contains c, so that
\* south <= c.latitude < north and west <= c.longitude < east.
C15_GridCell ==
    pc = "cell" =>
        /\ cell.status = "ok"
        /\ cell.code = coordinateToGridCode(coord)
        /\ gridCodeToCoordinate(cell.code) = Returned(cell.center.latitude, cell.center.longitude)
        /\ cell.bounds = CellEdges(coord)
        /\ cell.bounds.south <= coord.latitude /\ coord.latitude < cell.bounds.north
        /\ cell.bounds.west <= coord.longitude /\ coord.longitude < cell.bounds.east

(***************************************************************************)
(* Properties of the stored notes, their readers and the scanner.          *)
(***************************************************************************)
\* C16: for every grid code G of a stored location, the text that the QR
\* display screen builds for G is accepted by handleBarCodeScanned: the
\* scanner navigates to the location view of G and shows no alert.
C16_ScanOpensLocation ==
    \A g \in StoredCodes :
        (screen.kind = "scan" /\ screen.data = QrValue(g))
            => (screen.route = << "ViewLocation", g >> /\ screen.alert = << >>)

\* The notes that the screen holds, whichever read has filled it.
ExposedNotes ==
    CASE screen.kind = "getAllNotesSorted" ->
            { screen.result[i].note : i \in 1..Len(screen.result) }
      [] screen.kind = "getNearbyLocations" ->
            UNION { { screen.result[i].gridLocation.notes[j] :
                        j \in 1..Len(screen.result[i].gridLocation.notes) } :
                    i \in 1..Len(screen.result) }
      [] screen.kind \in { "searchNotes", "getNotesForLocation", "NoteDetail" } ->
            { screen.result[i] : i \in 1..Len(screen.result) }
      [] OTHER -> { }

\* The noteData with which the note was saved.
SavedAs(note) == drafts[note.id]

SavedAsCapsule(note) ==
    /\ "storyType" \in DOMAIN SavedAs(note)
    /\ SavedAs(note).storyType = "timecapsule"
    /\ SavedAs(note).unlockAt # Null

SavedAsWhisper(note) ==
    /\ "whisperRadius" \in DOMAIN SavedAs(note)
    /\ SavedAs(note).whisperRadius # Null

\* C17: a note saved as a time capsule with unlockAt = T is in the result of
\* no read (getAllNotesSorted, searchNotes, getNotesForLocation,
\* getNearbyLocations, the note detail) made before T with its title and
\* content.
C17_CapsuleSealed ==
    \A note \in ExposedNotes :
        (SavedAsCapsule(note) /\ screen.at < SavedAs(note).unlockAt[1])
            => "title" \notin DOMAIN note

\* C18: a note saved with whisperRadius = R is in the result of
\* getAllNotesSorted, searchNotes or getNearbyLocations only for a viewer
\* whose location is known and at most R from the note.
C18_WhisperNearby ==
    screen.kind \in { "getAllNotesSorted", "searchNotes", "getNearbyLocations" } =>
        \A note \in ExposedNotes :
            SavedAsWhisper(note) =>
                /\ screen.viewer.known
                /\ DistanceWithin(screen.viewer, note.coordinate,
                                  SavedAs(note).whisperRadius[1])

\* The position in the locations of the one that holds the note of the id,
\* 0 when none does.
HolderOf(locations, id) ==
    IF \E i \in 1..Len(locations) :
          \E j \in 1..Len(locations[i].notes) : locations[i].notes[j].id = id
    THEN CHOOSE i \in 1..Len(locations) :
          \E j \in 1..Len(locations[i].notes) : locations[i].notes[j].id = id
    ELSE 0

\* What a completed saveNote has done to the locations, of which after is the
\* value written and id the id of the new note.
SaveNoteEffect(before, after, id, now) ==
    LET i == HolderOf(after, id)
        location == after[i]
        note == location.notes[Len(location.notes)]
        k == KeyIndex(before, location.code)
    IN  /\ i # 0
        /\ note.id = id
        /\ location.code = coordinateToGridCode(note.coordinate)
        /\ IF k = 0
           THEN /\ Len(after) = Len(before) + 1
                /\ location.qrGenerated
                /\ location.firstNoteAt = now
                /\ location.noteCount = 1
                /\ location.notes = << note >>
                /\ \A m \in 1..Len(before) : after[m] = before[m]
           ELSE /\ Len(after) = Len(before)
                /\ i = k
                /\ location.notes = Append(before[k].notes, note)
                /\ location.coordinate = before[k].coordinate
                /\ location.firstNoteAt = before[k].firstNoteAt
                /\ location.qrGenerated = before[k].qrGenerated
                /\ \A m \in 1..Len(before) : m # k => after[m] = before[m]

C29_NearbyOrder ==
    (screen.kind = "getAllNotesSorted" /\ screen.sortBy = "nearby" /\ screen.viewer.known) =>
        \A i \in 1..Len(screen.result) : \A j \in i..Len(screen.result) :
            /\ ~screen.result[i].distance.nan
            /\ ~DistanceLess(screen.result[j].distance, screen.result[i].distance)

(***************************************************************************)
(* Properties of start-up.                                                 *)
(***************************************************************************)
\* C30: provided every awaited storage or location call returns or throws in
\* the end, the init sequence of AppProvider sets isLoading to false in the
\* end and the loading screen is left, also when the location is denied,
\* when reading the position fails and when writing the demo notes fails.
C30_StartUpFinishes == <>(boot.isLoading = FALSE)

(***************************************************************************)
(* Properties of the operations on stored notes.                           *)
(***************************************************************************)
\* C24: after any sequence of completed saveNote, voteOnNote, addReply,
\* giveAward and deleteNote calls every stored location is filed under the
\* key equal to its code, and every note of its list has gridCode equal to
\* that key and to the code of the note's own coordinate.
C24_FiledUnderCode ==
    \A i \in 1..Len(store) :
        /\ store[i].key = store[i].code
        /\ \A j \in 1..Len(store[i].notes) :
              /\ store[i].notes[j].gridCode = store[i].key
              /\ store[i].notes[j].gridCode = coordinateToGridCode(store[i].notes[j].coordinate)

\* A note has been saved and the demo note deleted, and the locations hold a
\* note with a vote and a note with an award or a reply.
C24_Witness ==
    /\ \A n \in StoredNotes : n.id # 1
    /\ \E n \in StoredNotes : n.votedBy # << >>
    /\ \E n \in StoredNotes : n.awards # << >> \/ n.replies # << >>

\* C25: after any sequence of completed saveNote and deleteNote calls, one at
\* a time, noteCount of every stored location is the length of its notes,
\* and no stored location has an empty list of notes.
C25_NoteCount ==
    \A i \in 1..Len(store) :
        /\ store[i].noteCount = Len(store[i].notes)
        /\ Len(store[i].notes) > 0

\* The only note of the demo location has been deleted and the location is
\* gone, and a location that has been saved to twice holds two notes.
C25_Witness ==
    /\ \A i \in 1..Len(store) : store[i].key # coordinateToGridCode(DemoCoord)
    /\ \E i \in 1..Len(store) : Len(store[i].notes) = 2

\* C26: after any sequence of completed voteOnNote calls, one at a time, the
\* upvotes of every note are the number of users recorded with 'up' in
\* votedBy, the downvotes the number recorded with 'down', and neither is
\* negative.
C26_VoteCounts ==
    \A n \in StoredNotes :
        /\ n.upvotes = Cardinality({ u \in DOMAIN n.votedBy : n.votedBy[u] = "up" })
        /\ n.downvotes = Cardinality({ u \in DOMAIN n.votedBy : n.votedBy[u] = "down" })
        /\ n.upvotes >= 0
        /\ n.downvotes >= 0

\* Three calls have saved no note, stored no reply and given no award, and
\* the demo note holds the vote of one user up and of the other down.
C26_Witness ==
    /\ clock = 3
    /\ nextId = 1
    /\ \E n \in StoredNotes :
          /\ n.upvotes = 1
          /\ n.downvotes = 1
          /\ n.awards = << >>

\* What a completed call has done is in the stored locations: the saved note,
\* the vote, the reply or the award on the note if it is stored, the absence
\* of the deleted note.
EffectStored(task) ==
    LET call == task.call
        note == IF call.name = "saveNote" THEN Blank
                ELSE NoteAt(store, call.target[1], call.target[2])
    IN  CASE call.name = "saveNote" -> \E n \in StoredNotes : n.id = task.id
          [] call.name = "deleteNote" -> note = Blank
          [] note = Blank \/ ~ReachesSetItem(call, task.locations) -> TRUE
          [] call.name = "voteOnNote" ->
                IF call.voteType = "none" THEN call.odId \notin DOMAIN note.votedBy
                ELSE /\ call.odId \in DOMAIN note.votedBy
                     /\ note.votedBy[call.odId] = call.voteType
          [] call.name = "addReply" -> task.id \in ReplyIds(note.replies)
          [] call.name = "giveAward" -> \E k \in 1..Len(note.awards) : note.awards[k].id = task.id

\* C27: when two calls on the locations, a saveNote and a second call, have
\* each read the stored locations before the other has written, then after
\* both have completed the stored locations contain what both have done.
C27_NoUpdateLost ==
    ((\A t \in Tasks : tasks[t].pc = "done") /\ tasks[1].locations = tasks[2].locations) =>
        \A t \in Tasks : EffectStored(tasks[t])

RECURSIVE CountReplies(_)
CountReplies(replies) ==
    IF Len(replies) = 0 THEN 0
    ELSE 1 + CountReplies(replies[1].replies) + CountReplies(SubSeq(replies, 2, Len(replies)))

\* C28: after any sequence of completed addReply calls on a note, with
\* parentReplyId null or any string, replyCount of the note is the number of
\* replies stored in its tree of replies, nested ones included.
C28_ReplyCount ==
    \A n \in StoredNotes : n.replyCount = CountReplies(n.replies)

(***************************************************************************)
(* Properties of the four-character groups.                                *)
(***************************************************************************)
\* C20: for every index a valid coordinate produces, decodeBase32 of the
\* four-character group that encodeBase32 made of it is the index: the
\* latitude and the longitude group of a code decode to the encoded indices.
C20_GroupsLossless ==
    code # << >> =>
        /\ SubSeq(code, 1, 4) = encodeBase32(latIndexOf(coord), 4)
        /\ SubSeq(code, 6, 9) = encodeBase32(lngIndexOf(coord), 4)
        /\ decodeBase32(SubSeq(code, 1, 4)) = latIndexOf(coord)
        /\ decodeBase32(SubSeq(code, 6, 9)) = lngIndexOf(coord)

(***************************************************************************)
(* Properties of the sub-cell.                                             *)
(***************************************************************************)
\* C21: for every coordinate in the valid ranges the sub-cell value of its
\* code is subLatIndex * 5 + subLngIndex with both indices in 0..4, the
\* decoder recovers the same pair from the 2-character group, and the
\* coordinate it returns is the centre of that sub-cell of the coordinate.
C21_SubCell ==
    (pc \in {"decoded", "reencoded"} /\ InValidRange(coord)) =>
        LET subLatIndex == subLatIndexOf(coord)
            subLngIndex == subLngIndexOf(coord)
            subCode == SubSeq(code, 11, 12)
        IN  /\ subLatIndex \in 0..4
            /\ subLngIndex \in 0..4
            /\ subCode = encodeBase32(subLatIndex * 5 + subLngIndex, 2)
            /\ FloorDiv(decodeBase32(subCode), 5) = subLatIndex
            /\ JsRem(decodeBase32(subCode), 5) = subLngIndex
            /\ center.status = "ok"
            /\ center.latitude = latIndexOf(coord) * LATITUDE_PRECISION - Lat90
                                    + (2 * subLatIndex + 1) * (LATITUDE_PRECISION \div 10)
            /\ center.longitude = lngIndexOf(coord) * LONGITUDE_PRECISION - Lng180
                                    + (2 * subLngIndex + 1) * (LONGITUDE_PRECISION \div 10)

====
